---------------------------- MODULE Spec2Model ----------------------------
(***************************************************************************)
(* Japanese Arrows: the rule-driven solver (solver/solver.py,              *)
(* solver/utils.py, solver/definitions.py, universe.py, models.py) and the *)
(* generator loop that drives it (generator/generator.py).                 *)
(*                                                                         *)
(* Encoding of Python values:                                              *)
(*   Optional[x]      <<>> for None, <<x>> for a value                     *)
(*   NUMBER values    <<>> for "nil", <<n>> for the integer n              *)
(*   POSITION values  <<>> for "OOB", <<r, c>> for a cell (0-based)        *)
(***************************************************************************)
EXTENDS Integers, Sequences, FiniteSets, TLC

\* ------------------------------------------------------------------ bounds
MaxCells == 2
MaxAttempts == 2
MaxComplexity == 2
MaxCount == 2
MaxWorkers == 2
MaxTimeout == 2
MaxTime == 4
MaxTasks == 4
MaxLine == 11
MaxNumber == 10
MaxApplyCols == 3
MaxBacktrackCols == 3

\* ------------------------------------------------------- program constants
MinGuessLimit == 3
MinModificationLimit == 3
GuessPercent == 15
ModificationPercent == 10
OutwardPercent == 10

\* ----------------------------------------------------------------- helpers
None == <<>>
Some(x) == <<x>>
OOB == <<>>
nil == <<>>

Max2(a, b) == IF a >= b THEN a ELSE b

CeilDiv(a, b) == (a + b - 1) \div b

SetMax(S) == CHOOSE x \in S : \A y \in S : y <= x

SetMin(S) == CHOOSE x \in S : \A y \in S : x <= y

\* ------------------------------------------------------------- models.py
NORTH == "N"
NORTH_EAST == "NE"
EAST == "E"
SOUTH_EAST == "SE"
SOUTH == "S"
SOUTH_WEST == "SW"
WEST == "W"
NORTH_WEST == "NW"

Direction == {NORTH, NORTH_EAST, EAST, SOUTH_EAST, SOUTH, SOUTH_WEST, WEST, NORTH_WEST}

\* Direction.delta
delta(d) ==
    CASE d = NORTH -> <<-1, 0>>
      [] d = NORTH_EAST -> <<-1, 1>>
      [] d = EAST -> <<0, 1>>
      [] d = SOUTH_EAST -> <<1, 1>>
      [] d = SOUTH -> <<1, 0>>
      [] d = SOUTH_WEST -> <<1, -1>>
      [] d = WEST -> <<0, -1>>
      [] d = NORTH_WEST -> <<-1, -1>>

\* Cell(direction, number=None, candidates=None)
Cell(d, n, cs) == [direction |-> d, number |-> n, candidates |-> cs]

Positions(rows, cols) == {<<r, c>> : r \in 0..(rows - 1), c \in 0..(cols - 1)}

\* ---------------------------------------------- models.py: the text format
\* A text is a sequence of characters. The arrow glyph of a direction
\* (Direction.value) is written as the direction's name and counts as one
\* character.
\* the outcome of a call that raises ValueError
ValueError == [raised |-> "ValueError"]

DigitChars == <<"0", "1", "2", "3", "4", "5", "6", "7", "8", "9">>

Whitespace == {" ", "\n"}

RECURSIVE str_int(_)
\* str(n) for an int n
str_int(n) ==
    IF n < 0 THEN <<"-">> \o str_int(0 - n)
    ELSE IF n < 10 THEN <<DigitChars[n + 1]>>
    ELSE str_int(n \div 10) \o <<DigitChars[(n % 10) + 1]>>

\* int(ch) for a text of one character raises ValueError unless ch is a digit
IsDigit(ch) == \E k \in DOMAIN DigitChars : DigitChars[k] = ch

\* int(ch) for a digit ch
int_char(ch) == (CHOOSE k \in DOMAIN DigitChars : DigitChars[k] = ch) - 1

RECURSIVE Join(_, _)
\* sep.join(parts)
Join(sep, parts) ==
    IF parts = <<>> THEN <<>>
    ELSE IF Len(parts) = 1 THEN parts[1]
    ELSE parts[1] \o sep \o Join(sep, Tail(parts))

RECURSIVE LStrip(_, _)
LStrip(text, chars) ==
    IF text # <<>> /\ text[1] \in chars THEN LStrip(Tail(text), chars) ELSE text

RECURSIVE RStrip(_, _)
RStrip(text, chars) ==
    IF text # <<>> /\ text[Len(text)] \in chars
    THEN RStrip(SubSeq(text, 1, Len(text) - 1), chars)
    ELSE text

\* text.strip(chars); text.strip() with chars = Whitespace
Strip(text, chars) == RStrip(LStrip(text, chars), chars)

RECURSIVE Split(_, _)
\* text.split(sep) for a separator of one character
Split(text, sep) ==
    IF \A k \in DOMAIN text : text[k] # sep THEN <<text>>
    ELSE <<SubSeq(text, 1, (CHOOSE k \in DOMAIN text :
                               text[k] = sep /\ \A j \in 1..(k - 1) : text[j] # sep) - 1)>>
         \o Split(SubSeq(text, (CHOOSE k \in DOMAIN text :
                                   text[k] = sep /\ \A j \in 1..(k - 1) : text[j] # sep) + 1,
                         Len(text)), sep)

\* text.splitlines()
SplitLines(text) ==
    IF text = <<>> THEN <<>>
    ELSE IF text[Len(text)] = "\n" THEN Split(SubSeq(text, 1, Len(text) - 1), "\n")
    ELSE Split(text, "\n")

\* Cell.__str__
Cell__str__(cell) ==
    <<cell.direction>> \o (IF cell.number # None THEN str_int(cell.number[1]) ELSE <<".">>)

\* Cell.from_string(text): the cell, or ValueError
Cell_from_string(text) ==
    IF Len(text) # 2 THEN ValueError
    ELSE IF text[1] \notin Direction THEN ValueError
    ELSE IF text[2] = "." THEN Cell(text[1], None, None)
    ELSE IF ~IsDigit(text[2]) THEN ValueError
    ELSE Cell(text[1], Some(int_char(text[2])), None)

\* line 104: the border line
Border(cols) == <<"+">> \o Join(<<"+">>, [k \in 1..cols |-> <<"-", "-", "-", "-">>]) \o <<"+">>

\* lines 107-109: the content line of row r
RowStr(pz, r) ==
    <<"|">> \o Join(<<>>, [k \in 1..pz.cols |->
                             <<" ">> \o Cell__str__(pz.grid[<<r, k - 1>>]) \o <<" ", "|">>])

\* Puzzle.to_string
Puzzle_to_string(pz) ==
    Join(<<"\n">>, [k \in 1..(2 * pz.rows + 1) |->
                      IF k % 2 = 1 THEN Border(pz.cols) ELSE RowStr(pz, (k \div 2) - 1)])
        \o <<"\n">>

\* lines 116-118: the lines that are not border lines
ContentLines(text) ==
    SelectSeq(SplitLines(Strip(text, Whitespace)),
              LAMBDA line : ~(line # <<>> /\ line[1] = "+"))

\* lines 124-128: the cells of a content line
RowCells(line) ==
    [k \in DOMAIN Split(Strip(line, {"|"}), "|") |->
        Cell_from_string(Strip(Split(Strip(line, {"|"}), "|")[k], Whitespace))]

\* lines 131-133 and __post_init__: the Puzzle of the parsed rows, or ValueError
PuzzleOf(grid) ==
    IF \E r \in DOMAIN grid : Len(grid[r]) # (IF grid = <<>> THEN 0 ELSE Len(grid[1]))
    THEN ValueError
    ELSE [rows |-> Len(grid),
          cols |-> IF grid = <<>> THEN 0 ELSE Len(grid[1]),
          grid |-> [pos \in Positions(Len(grid), IF grid = <<>> THEN 0 ELSE Len(grid[1]))
                       |-> grid[pos[1] + 1][pos[2] + 1]]]

\* Puzzle.from_string(text): the puzzle, or ValueError
Puzzle_from_string(text) ==
    IF \E r \in DOMAIN ContentLines(text) :
          \E k \in DOMAIN RowCells(ContentLines(text)[r]) :
              RowCells(ContentLines(text)[r])[k] = ValueError
    THEN ValueError
    ELSE PuzzleOf([r \in DOMAIN ContentLines(text) |-> RowCells(ContentLines(text)[r])])

InGrid(rows, cols, r, c) == 0 <= r /\ r < rows /\ 0 <= c /\ c < cols

\* row-major rank of a cell: the order of "for r in range(rows): for c in range(cols)"
RowMajor(cols, pos) == pos[1] * cols + pos[2]

RECURSIVE Walk(_, _, _, _, _, _)
\* the cells from (r, c) on, stepping by (dr, dc), up to the grid edge
Walk(rows, cols, r, c, dr, dc) ==
    IF InGrid(rows, cols, r, c)
    THEN <<<<r, c>>>> \o Walk(rows, cols, r + dr, c + dc, dr, dc)
    ELSE <<>>

Range(s) == {s[i] : i \in 1..Len(s)}

\* the committed numbers among the cells of a set
NumbersOf(puzzle, cells) ==
    {puzzle.grid[q].number[1] : q \in {x \in cells : puzzle.grid[x].number # None}}

\* the cells ahead of pos when stepping by d = (dr, dc)
RayFrom(puzzle, pos, d) ==
    Walk(puzzle.rows, puzzle.cols, pos[1] + d[1], pos[2] + d[2], d[1], d[2])

\* validate with the "number is None" test left out: pending cells are skipped
validate_skipping_pending(puzzle) ==
    \A pos \in Positions(puzzle.rows, puzzle.cols) :
        \/ puzzle.grid[pos].number = None
        \/ puzzle.grid[pos].number[1] =
              Cardinality(NumbersOf(puzzle,
                  Range(RayFrom(puzzle, pos, delta(puzzle.grid[pos].direction)))))

\* Puzzle.validate: every cell committed and equal to the number of distinct
\* numbers on the ray of its direction
validate(puzzle) ==
    \A pos \in Positions(puzzle.rows, puzzle.cols) :
        /\ puzzle.grid[pos].number # None
        /\ puzzle.grid[pos].number[1] =
              Cardinality(NumbersOf(puzzle,
                  Range(RayFrom(puzzle, pos, delta(puzzle.grid[pos].direction)))))

\* ------------------------------------------------- solver/definitions.py
\* compute_all_paths
compute_all_paths(puzzle) ==
    [pos \in Positions(puzzle.rows, puzzle.cols) |->
        RayFrom(puzzle, pos, delta(puzzle.grid[pos].direction))]

get_path(path_cache, p) == IF p = OOB THEN <<>> ELSE path_cache[p]

\* get_next, from the cell p and the delta d of its direction
NextFrom(puzzle, p, d) ==
    IF InGrid(puzzle.rows, puzzle.cols, p[1] + d[1], p[2] + d[2])
    THEN <<p[1] + d[1], p[2] + d[2]>>
    ELSE OOB

\* Universe functions (create_universe), over the puzzle the universe closes over
fn_next(puzzle, p) ==
    IF p = OOB THEN OOB ELSE NextFrom(puzzle, p, delta(puzzle.grid[p].direction))

fn_val(puzzle, p) == IF p = OOB THEN nil ELSE puzzle.grid[p].number

fn_ahead(path_cache, p) == IF p = OOB THEN <<0>> ELSE <<Len(path_cache[p])>>

fn_sees_distinct(puzzle, path_cache, p) ==
    IF p = OOB THEN <<0>>
    ELSE <<Cardinality(NumbersOf(puzzle, Range(get_path(path_cache, p))))>>

fn_ahead_free(puzzle, path_cache, p) ==
    IF p = OOB THEN <<0>>
    ELSE <<Cardinality({i \in 1..Len(get_path(path_cache, p)) :
              puzzle.grid[get_path(path_cache, p)[i]].number = None})>>

\* relation candidate(p, i)
rel_candidate(puzzle, p, i) ==
    IF p = OOB \/ i = nil THEN FALSE
    ELSE IF puzzle.grid[p].number # None THEN puzzle.grid[p].number = i
    ELSE IF puzzle.grid[p].candidates # None THEN i[1] \in puzzle.grid[p].candidates[1]
    ELSE FALSE

\* --------------------------------------------------------------- rules.py
Variable(name) == [t |-> "Variable", name |-> name, value |-> nil, args |-> <<>>]
Constant(v) == [t |-> "Constant", name |-> "", value |-> v, args |-> <<>>]
FunctionCall(name, args) == [t |-> "FunctionCall", name |-> name, value |-> nil, args |-> args]

Equality(l, r) == [f |-> "Equality", relation |-> "", args |-> <<l, r>>]
Relation(name, args) == [f |-> "Relation", relation |-> name, args |-> args]
\* a negated atom: Not(Equality(l, r)) and Not(Relation(name, args))
NotEquality(l, r) == [f |-> "NotEquality", relation |-> "", args |-> <<l, r>>]

\* ExistsPosition([p], And(atoms)): the condition of a rule over one position
ExistsPosition(atoms) == [f |-> "ExistsPosition", formulas |-> atoms]

SetVal(pos, v) == [c |-> "SetVal", position |-> pos, operator |-> "", values |-> <<v>>]
ExcludeVal(pos, op, v) == [c |-> "ExcludeVal", position |-> pos, operator |-> op, values |-> <<v>>]
OnlyVal(pos, vs) == [c |-> "OnlyVal", position |-> pos, operator |-> "", values |-> vs]

FORule(name, condition, conclusions, complexity) ==
    [kind |-> "FORule", name |-> name, complexity |-> complexity,
     condition |-> condition, conclusions |-> conclusions,
     backtrack_depth |-> 0, rule_depth |-> 0, max_rule_complexity |-> 0]

BacktrackRule(name, complexity, backtrack_depth, rule_depth, max_rule_complexity) ==
    [kind |-> "BacktrackRule", name |-> name, complexity |-> complexity,
     condition |-> ExistsPosition(<<>>), conclusions |-> <<>>,
     backtrack_depth |-> backtrack_depth,
     rule_depth |-> rule_depth, max_rule_complexity |-> max_rule_complexity]

\* ------------------------------------------------------------ universe.py
\* a function of the universe applied to its evaluated argument
apply_function(name, a, puzzle, path_cache) ==
    CASE name = "next" -> fn_next(puzzle, a)
      [] name = "val" -> fn_val(puzzle, a)
      [] name = "ahead" -> fn_ahead(path_cache, a)
      [] name = "sees_distinct" -> fn_sees_distinct(puzzle, path_cache, a)
      [] name = "ahead_free" -> fn_ahead_free(puzzle, path_cache, a)

RECURSIVE eval_term(_, _, _, _)
\* Universe.eval_term under the assignment {p: w}
eval_term(term, w, puzzle, path_cache) ==
    CASE term.t = "Variable" -> w
      [] term.t = "Constant" -> term.value
      [] term.t = "FunctionCall" ->
            apply_function(term.name, eval_term(term.args[1], w, puzzle, path_cache),
                           puzzle, path_cache)

\* one atom of the condition under the assignment {p: w}
check_atom(phi, w, puzzle, path_cache) ==
    CASE phi.f = "Equality" ->
            eval_term(phi.args[1], w, puzzle, path_cache) = eval_term(phi.args[2], w, puzzle, path_cache)
      [] phi.f = "NotEquality" ->
            eval_term(phi.args[1], w, puzzle, path_cache) # eval_term(phi.args[2], w, puzzle, path_cache)
      [] phi.f = "Relation" ->
            rel_candidate(puzzle, eval_term(phi.args[1], w, puzzle, path_cache),
                          eval_term(phi.args[2], w, puzzle, path_cache))

\* Universe.check_all on ExistsPosition([p], And(atoms)): the witnesses, as the set
\* of values of p (the quantifier skips OOB); the order in which the Python set of
\* positions is iterated is not fixed by the program
check_all(phi, puzzle, path_cache) ==
    {w \in Positions(puzzle.rows, puzzle.cols) :
        \A i \in 1..Len(phi.formulas) : check_atom(phi.formulas[i], w, puzzle, path_cache)}

\* ---------------------------------- rules.py: conditions of any shape
\* type_checking.py, lines 27-33: Type
POSITION == "Position"
NUMBER == "Number"
UNKNOWN == "Unknown"

\* And, Or, Not; Exists(POSITION, ...) is ExistsPosition, Exists(NUMBER, ...) is
\* ExistsNumber, likewise ForAll; variables is a list of Variable
And(formulas) == [f |-> "And", formulas |-> formulas]
Or(formulas) == [f |-> "Or", formulas |-> formulas]
Not(formula) == [f |-> "Not", formula |-> formula]
Exists(sort, variables, formula) ==
    [f |-> "Exists", sort |-> sort, variables |-> variables, formula |-> formula]
ForAll(sort, variables, formula) ==
    [f |-> "ForAll", sort |-> sort, variables |-> variables, formula |-> formula]

\* [v.name for v in variables]
Names(variables) == {variables[k].name : k \in DOMAIN variables}

\* ------------------------------------- universe.py: Universe._check_all
\* domain[sort] - quantifier_exclusions[sort] of create_universe
Elements(sort, puzzle) ==
    IF sort = POSITION THEN Positions(puzzle.rows, puzzle.cols)
    ELSE {<<n>> : n \in 0..(Max2(puzzle.rows, puzzle.cols) - 1)}

RECURSIVE Universe_eval_term(_, _, _, _)
\* Universe.eval_term(term, assignment)
Universe_eval_term(term, assignment, puzzle, path_cache) ==
    CASE term.t = "Variable" -> assignment[term.name]
      [] term.t = "Constant" -> term.value
      [] term.t = "FunctionCall" ->
            apply_function(term.name,
                           Universe_eval_term(term.args[1], assignment, puzzle, path_cache),
                           puzzle, path_cache)

RECURSIVE _check_all(_, _, _, _)
RECURSIVE _check_and(_, _, _, _, _, _)
\* Universe._check_all(phi, assignment): the set of the witnesses it yields
_check_all(phi, assignment, puzzle, path_cache) ==
    CASE phi.f = "And" -> _check_and(phi.formulas, 1, assignment, <<>>, puzzle, path_cache)
      [] phi.f = "Or" ->
            UNION {_check_all(phi.formulas[k], assignment, puzzle, path_cache) :
                      k \in DOMAIN phi.formulas}
      [] phi.f = "Not" ->
            IF _check_all(phi.formula, assignment, puzzle, path_cache) = {} THEN {<<>>} ELSE {}
      [] phi.f = "Exists" ->
            UNION {{inner_witness @@ values :
                       inner_witness \in _check_all(phi.formula, values @@ assignment,
                                                    puzzle, path_cache)} :
                      values \in [Names(phi.variables) -> Elements(phi.sort, puzzle)]}
      [] phi.f = "ForAll" ->
            IF \A values \in [Names(phi.variables) -> Elements(phi.sort, puzzle)] :
                  _check_all(phi.formula, values @@ assignment, puzzle, path_cache) # {}
            THEN {<<>>} ELSE {}
      [] phi.f = "Relation" ->
            IF rel_candidate(puzzle,
                             Universe_eval_term(phi.args[1], assignment, puzzle, path_cache),
                             Universe_eval_term(phi.args[2], assignment, puzzle, path_cache))
            THEN {<<>>} ELSE {}
      [] phi.f = "Equality" ->
            IF Universe_eval_term(phi.args[1], assignment, puzzle, path_cache)
                  = Universe_eval_term(phi.args[2], assignment, puzzle, path_cache)
            THEN {<<>>} ELSE {}

\* Universe._check_and(formulas[i:], assignment, combined)
_check_and(formulas, i, assignment, combined, puzzle, path_cache) ==
    IF i > Len(formulas) THEN {combined}
    ELSE UNION {_check_and(formulas, i + 1, assignment, w @@ combined, puzzle, path_cache) :
                   w \in _check_all(formulas[i], assignment, puzzle, path_cache)}

\* Universe.check_all(phi) on the universe of the puzzle
Universe_check_all(phi, puzzle) == _check_all(phi, <<>>, puzzle, compute_all_paths(puzzle))

\* ------------------------------------------------------------ optimizer.py
RECURSIVE get_free_variables(_)
get_free_variables(node) ==
    IF "t" \in DOMAIN node
    THEN CASE node.t = "Variable" -> {node.name}
           [] node.t = "Constant" -> {}
           [] node.t = "FunctionCall" ->
                 UNION {get_free_variables(node.args[k]) : k \in DOMAIN node.args}
    ELSE CASE node.f \in {"And", "Or"} ->
                 UNION {get_free_variables(node.formulas[k]) : k \in DOMAIN node.formulas}
           [] node.f = "Not" -> get_free_variables(node.formula)
           [] node.f \in {"Exists", "ForAll"} ->
                 get_free_variables(node.formula) \ Names(node.variables)
           [] node.f \in {"Equality", "Relation"} ->
                 UNION {get_free_variables(node.args[k]) : k \in DOMAIN node.args}

RECURSIVE substitute_term(_, _, _)
substitute_term(term, var_name, replacement) ==
    CASE term.t = "Variable" -> IF term.name = var_name THEN replacement ELSE term
      [] term.t = "Constant" -> term
      [] term.t = "FunctionCall" ->
            FunctionCall(term.name,
                         [k \in DOMAIN term.args |->
                             substitute_term(term.args[k], var_name, replacement)])

RECURSIVE substitute_formula(_, _, _)
substitute_formula(formula, var_name, replacement) ==
    CASE formula.f \in {"Equality", "Relation"} ->
            [formula EXCEPT !.args = [k \in DOMAIN formula.args |->
                                         substitute_term(formula.args[k], var_name, replacement)]]
      [] formula.f = "Not" -> Not(substitute_formula(formula.formula, var_name, replacement))
      [] formula.f \in {"And", "Or"} ->
            [formula EXCEPT !.formulas = [k \in DOMAIN formula.formulas |->
                                             substitute_formula(formula.formulas[k], var_name,
                                                                replacement)]]
      [] formula.f \in {"Exists", "ForAll"} ->
            IF var_name \in Names(formula.variables) THEN formula
            ELSE [formula EXCEPT !.formula = substitute_formula(@, var_name, replacement)]

substitute_conclusion(conclusion, var_name, replacement) ==
    [conclusion EXCEPT !.position = substitute_term(@, var_name, replacement),
                       !.values = [k \in DOMAIN conclusion.values |->
                                      substitute_term(conclusion.values[k], var_name, replacement)]]

\* isinstance(term, Variable) and term.name == var_name
IsVariable(term, var_name) == term.t = "Variable" /\ term.name = var_name

RECURSIVE find_equality_substitution(_, _, _)
\* find_equality_substitution(conjuncts, var_name), looking from conjunct i on
find_equality_substitution(conjuncts, i, var_name) ==
    IF i > Len(conjuncts) THEN None
    ELSE IF /\ conjuncts[i].f = "Equality"
            /\ IsVariable(conjuncts[i].args[1], var_name)
            /\ var_name \notin get_free_variables(conjuncts[i].args[2])
    THEN Some(conjuncts[i].args[2])
    ELSE IF /\ conjuncts[i].f = "Equality"
            /\ IsVariable(conjuncts[i].args[2], var_name)
            /\ var_name \notin get_free_variables(conjuncts[i].args[1])
    THEN Some(conjuncts[i].args[1])
    ELSE find_equality_substitution(conjuncts, i + 1, var_name)

get_position_variables_from_conclusions(conclusions) ==
    UNION {get_free_variables(conclusions[k].position) : k \in DOMAIN conclusions}

\* lines 166-173: the conjunct is the equality that defines the variable
should_skip(c, var_name) ==
    /\ c.f = "Equality"
    /\ IsVariable(c.args[1], var_name) \/ IsVariable(c.args[2], var_name)
    /\ var_name \notin (IF IsVariable(c.args[1], var_name)
                        THEN get_free_variables(c.args[2])
                        ELSE get_free_variables(c.args[1]))

\* lines 164-175: new_conjuncts
SubstitutedConjuncts(conjuncts, var_name, replacement) ==
    [k \in DOMAIN SelectSeq(conjuncts, LAMBDA c : ~should_skip(c, var_name)) |->
        substitute_formula(SelectSeq(conjuncts, LAMBDA c : ~should_skip(c, var_name))[k],
                           var_name, replacement)]

\* lines 182, 197
SubstitutedConclusions(conclusions, var_name, replacement) ==
    [k \in DOMAIN conclusions |-> substitute_conclusion(conclusions[k], var_name, replacement)]

\* lines 177-197: the loop state after the variable v, given its substitution
EliminatedWith(st, variables, v, is_position_quantifier, new_conjuncts, tentative_conclusions) ==
    IF new_conjuncts = <<>>
    THEN [st EXCEPT !.remaining_vars = Append(@, v)]
    ELSE IF /\ is_position_quantifier
            /\ get_position_variables_from_conclusions(tentative_conclusions)
                  \cap (Names(st.remaining_vars) \cup (Names(variables) \ {v.name})) = {}
    THEN [st EXCEPT !.remaining_vars = Append(@, v)]
    ELSE [remaining_vars |-> st.remaining_vars,
          current_conjuncts |-> new_conjuncts,
          current_conclusions |-> tentative_conclusions]

\* lines 162-199: one round of "for v in formula.variables"
EliminatedVariable(st, variables, v, is_position_quantifier, replacement) ==
    IF replacement = None
    THEN [st EXCEPT !.remaining_vars = Append(@, v)]
    ELSE EliminatedWith(st, variables, v, is_position_quantifier,
                        SubstitutedConjuncts(st.current_conjuncts, v.name, replacement[1]),
                        SubstitutedConclusions(st.current_conclusions, v.name, replacement[1]))

RECURSIVE EliminatedVariables(_, _, _, _)
\* lines 161-199: the rounds from variable k on
EliminatedVariables(st, variables, k, is_position_quantifier) ==
    IF k > Len(variables) THEN st
    ELSE EliminatedVariables(
             EliminatedVariable(st, variables, variables[k], is_position_quantifier,
                                find_equality_substitution(st.current_conjuncts, 1,
                                                           variables[k].name)),
             variables, k + 1, is_position_quantifier)

\* lines 201-207 and 281-287: body
Body(current_conjuncts) ==
    IF current_conjuncts = <<>> THEN And(<<>>)
    ELSE IF Len(current_conjuncts) = 1 THEN current_conjuncts[1]
    ELSE And(current_conjuncts)

\* inner.formulas if isinstance(inner, And) else [inner]
Conjuncts(inner) == IF inner.f = "And" THEN inner.formulas ELSE <<inner>>

\* lines 209-215
EliminationResult(formula, st) ==
    [formula |-> IF st.remaining_vars # <<>>
                 THEN Exists(formula.sort, st.remaining_vars, Body(st.current_conjuncts))
                 ELSE Body(st.current_conjuncts),
     conclusions |-> st.current_conclusions]

\* lines 153-215, given the result for the quantified formula
ExistsEliminated(formula, inner) ==
    EliminationResult(formula,
        EliminatedVariables([remaining_vars |-> <<>>,
                             current_conjuncts |-> Conjuncts(inner.formula),
                             current_conclusions |-> inner.conclusions],
                            formula.variables, 1, formula.sort = POSITION))

RECURSIVE eliminate_quantifiers_in_formula(_, _)
RECURSIVE EliminatedEach(_, _, _, _)
\* lines 221-225 and 227-231: the sub-formulas in turn, the conclusions threaded through
EliminatedEach(formulas, k, new_formulas, conclusions) ==
    IF k > Len(formulas) THEN [formulas |-> new_formulas, conclusions |-> conclusions]
    ELSE EliminatedEach(formulas, k + 1,
                        Append(new_formulas,
                               eliminate_quantifiers_in_formula(formulas[k], conclusions).formula),
                        eliminate_quantifiers_in_formula(formulas[k], conclusions).conclusions)

eliminate_quantifiers_in_formula(formula, conclusions) ==
    CASE formula.f = "Exists" ->
            ExistsEliminated(formula,
                             eliminate_quantifiers_in_formula(formula.formula, conclusions))
      [] formula.f \in {"ForAll", "Not"} ->
            [formula |-> [formula EXCEPT !.formula =
                             eliminate_quantifiers_in_formula(formula.formula, conclusions).formula],
             conclusions |->
                 eliminate_quantifiers_in_formula(formula.formula, conclusions).conclusions]
      [] formula.f \in {"And", "Or"} ->
            [formula |-> [formula EXCEPT !.formulas =
                             EliminatedEach(formula.formulas, 1, <<>>, conclusions).formulas],
             conclusions |-> EliminatedEach(formula.formulas, 1, <<>>, conclusions).conclusions]
      [] OTHER -> [formula |-> formula, conclusions |-> conclusions]

\* lines 258-264: the conjuncts that mention the variable, and the others
Using(current_conjuncts, v_name) ==
    SelectSeq(current_conjuncts, LAMBDA c : v_name \in get_free_variables(c))

NotUsing(current_conjuncts, v_name) ==
    SelectSeq(current_conjuncts, LAMBDA c : v_name \notin get_free_variables(c))

\* lines 255-279: one round of "for v in phi.variables"
Minscoped(st, sort, v, using_v, not_using_v) ==
    IF not_using_v # <<>> /\ using_v # <<>>
    THEN [st EXCEPT !.current_conjuncts =
             Append(not_using_v,
                    Exists(sort, <<v>>, IF Len(using_v) = 1 THEN using_v[1] ELSE And(using_v)))]
    ELSE IF using_v = <<>> THEN st
    ELSE [st EXCEPT !.retained_vars = Append(@, v)]

RECURSIVE MinscopedVariables(_, _, _, _)
MinscopedVariables(st, sort, variables, k) ==
    IF k > Len(variables) THEN st
    ELSE MinscopedVariables(
             Minscoped(st, sort, variables[k],
                       Using(st.current_conjuncts, variables[k].name),
                       NotUsing(st.current_conjuncts, variables[k].name)),
             sort, variables, k + 1)

\* lines 281-292
MinscopeResult(sort, st) ==
    IF st.current_conjuncts = <<>> THEN And(<<>>)
    ELSE IF st.retained_vars = <<>> THEN Body(st.current_conjuncts)
    ELSE Exists(sort, st.retained_vars, Body(st.current_conjuncts))

RECURSIVE minscope(_)
minscope(phi) ==
    CASE phi.f = "Exists" ->
            MinscopeResult(phi.sort,
                MinscopedVariables([current_conjuncts |-> Conjuncts(minscope(phi.formula)),
                                    retained_vars |-> <<>>],
                                   phi.sort, phi.variables, 1))
      [] phi.f \in {"ForAll", "Not"} -> [phi EXCEPT !.formula = minscope(@)]
      [] phi.f \in {"And", "Or"} ->
            [phi EXCEPT !.formulas = [k \in DOMAIN phi.formulas |-> minscope(phi.formulas[k])]]
      [] OTHER -> phi

\* optimize_rule, given the result of the elimination
OptimizedRule(rule, eliminated) ==
    [rule EXCEPT !.condition = minscope(eliminated.formula),
                 !.conclusions = eliminated.conclusions]

optimize_rule(rule) ==
    OptimizedRule(rule, eliminate_quantifiers_in_formula(rule.condition, rule.conclusions))

optimize(phi) == minscope(phi)

\* -------------------------------------------------------- type_checking.py
\* the outcome of a check that raised TypeError
TypeError == "TypeError"

\* solver/definitions.py, lines 305-328, for the symbols of the universe above
TYPE_CONSTANTS == [OOB |-> POSITION, nil |-> NUMBER]

TYPE_FUNCTIONS ==
    [next |-> [arg_types |-> <<POSITION>>, ret_type |-> POSITION],
     val |-> [arg_types |-> <<POSITION>>, ret_type |-> NUMBER],
     ahead |-> [arg_types |-> <<POSITION>>, ret_type |-> NUMBER],
     ahead_free |-> [arg_types |-> <<POSITION>>, ret_type |-> NUMBER],
     sees_distinct |-> [arg_types |-> <<POSITION>>, ret_type |-> NUMBER]]

TYPE_RELATIONS == [candidate |-> <<POSITION, NUMBER>>]

\* Constant("nil") and Constant("OOB"): constants given by name
Constant_nil == [t |-> "Constant", name |-> "nil", value |-> nil, args |-> <<>>]
Constant_OOB == [t |-> "Constant", name |-> "OOB", value |-> OOB, args |-> <<>>]

\* scope with each variable of the list bound to the type
Bound(scope, variables, type) == [n \in Names(variables) |-> type] @@ scope

RECURSIVE _infer_term_type(_, _, _, _)
\* the type of the term, or TypeError
_infer_term_type(term, constants, scope, functions) ==
    CASE term.t = "Variable" ->
            IF term.name \notin DOMAIN scope THEN TypeError ELSE scope[term.name]
      [] term.t = "Constant" ->
            IF term.value # <<>> THEN NUMBER
            ELSE IF term.name \in DOMAIN constants THEN constants[term.name]
            ELSE UNKNOWN
      [] term.t = "FunctionCall" ->
            IF term.name \notin DOMAIN functions THEN TypeError
            ELSE IF Len(term.args) # Len(functions[term.name].arg_types) THEN TypeError
            ELSE IF \E k \in DOMAIN term.args :
                       _infer_term_type(term.args[k], constants, scope, functions)
                           # functions[term.name].arg_types[k]
            THEN TypeError
            ELSE functions[term.name].ret_type

RECURSIVE _check_formula(_, _, _, _, _)
\* TRUE when _check_formula returns, FALSE when it raises TypeError
_check_formula(formula, constants, functions, relations, scope) ==
    CASE formula.f \in {"And", "Or"} ->
            \A k \in DOMAIN formula.formulas :
                _check_formula(formula.formulas[k], constants, functions, relations, scope)
      [] formula.f = "Not" ->
            _check_formula(formula.formula, constants, functions, relations, scope)
      [] formula.f \in {"Exists", "ForAll"} ->
            _check_formula(formula.formula, constants, functions, relations,
                           Bound(scope, formula.variables, formula.sort))
      [] formula.f = "Equality" ->
            /\ _infer_term_type(formula.args[1], constants, scope, functions) # TypeError
            /\ _infer_term_type(formula.args[2], constants, scope, functions) # TypeError
            /\ _infer_term_type(formula.args[1], constants, scope, functions)
                  = _infer_term_type(formula.args[2], constants, scope, functions)
      [] formula.f = "Relation" ->
            /\ formula.relation \in DOMAIN relations
            /\ Len(formula.args) = Len(relations[formula.relation])
            /\ \A k \in DOMAIN formula.args :
                  _infer_term_type(formula.args[k], constants, scope, functions)
                      = relations[formula.relation][k]

check_condition(formula, constants, functions, relations) ==
    _check_formula(formula, constants, functions, relations, <<>>)

RECURSIVE _gather_condition_variables(_, _)
RECURSIVE GatheredEach(_, _, _)
\* lines 86-88: the sub-formulas in turn
GatheredEach(formulas, k, scope) ==
    IF k > Len(formulas) THEN scope
    ELSE GatheredEach(formulas, k + 1, _gather_condition_variables(formulas[k], scope))

\* the scope after _gather_condition_variables(formula, scope)
_gather_condition_variables(formula, scope) ==
    CASE formula.f \in {"And", "Or"} -> GatheredEach(formula.formulas, 1, scope)
      [] formula.f = "Not" -> _gather_condition_variables(formula.formula, scope)
      [] formula.f = "Exists" ->
            _gather_condition_variables(formula.formula,
                                        Bound(scope, formula.variables, formula.sort))
      [] OTHER -> scope

\* TRUE when _check_conclusion returns, FALSE when it raises TypeError
_check_conclusion(conclusion, constants, scope, functions) ==
    /\ _infer_term_type(conclusion.position, constants, scope, functions) = POSITION
    /\ \A k \in DOMAIN conclusion.values :
          _infer_term_type(conclusion.values[k], constants, scope, functions) = NUMBER

\* check_rule: "ok" when it returns, TypeError when it raises
check_rule(rule, constants, functions, relations) ==
    IF rule.kind # "FORule" THEN "ok"
    ELSE IF ~check_condition(rule.condition, constants, functions, relations) THEN TypeError
    ELSE IF \A k \in DOMAIN rule.conclusions :
               _check_conclusion(rule.conclusions[k], constants,
                                 _gather_condition_variables(rule.condition, <<>>),
                                 functions)
    THEN "ok"
    ELSE TypeError

\* ------------------------------------------------------- solver/utils.py
NO_PROGRESS == "NO_PROGRESS"
PROGRESS == "PROGRESS"
CONTRADICTION == "CONTRADICTION"

Compare(c, op, v) ==
    CASE op = "=" -> c = v
      [] op = ">" -> c > v
      [] op = "<" -> c < v
      [] op = ">=" -> c >= v
      [] op = "<=" -> c <= v
      [] op = "!=" -> c # v

NoResult == [new_candidates |-> None, loc |-> None, current_candidates |-> None]

\* the candidate set a conclusion starts from: {number} of a committed cell, else
\* the cell's candidates
EffectiveCandidates(cell) ==
    IF cell.number # None THEN {cell.number[1]} ELSE cell.candidates[1]

\* the value terms of a conclusion, evaluated
eval_values(conclusion, w, puzzle, path_cache) ==
    [i \in 1..Len(conclusion.values) |-> eval_term(conclusion.values[i], w, puzzle, path_cache)]

\* the new candidate set when only(p, [v...]) overwrites the candidates with the
\* listed values without intersecting them with the current ones
NewCandidatesOnlyListed(conclusion, current_candidates, vals) ==
    CASE conclusion.c = "ExcludeVal" ->
            IF vals[1] # nil
            THEN {c \in current_candidates : ~Compare(c, conclusion.operator, vals[1][1])}
            ELSE current_candidates
      [] conclusion.c = "SetVal" ->
            IF vals[1] # nil THEN current_candidates \cap {vals[1][1]} ELSE {}
      [] conclusion.c = "OnlyVal" ->
            {vals[i][1] : i \in {j \in 1..Len(vals) : vals[j] # nil}}

\* the new candidate set when set(p, v) overwrites the candidates with {v}
\* without intersecting them with the current ones
NewCandidatesOverwriting(conclusion, current_candidates, vals) ==
    CASE conclusion.c = "ExcludeVal" ->
            IF vals[1] # nil
            THEN {c \in current_candidates : ~Compare(c, conclusion.operator, vals[1][1])}
            ELSE current_candidates
      [] conclusion.c = "SetVal" ->
            IF vals[1] # nil THEN {vals[1][1]} ELSE {}
      [] conclusion.c = "OnlyVal" ->
            current_candidates \cap {vals[i][1] : i \in {j \in 1..Len(vals) : vals[j] # nil}}

\* lines 42-73: the new candidate set, by the type of the conclusion
NewCandidates(conclusion, current_candidates, vals) ==
    CASE conclusion.c = "ExcludeVal" ->
            IF vals[1] # nil
            THEN {c \in current_candidates : ~Compare(c, conclusion.operator, vals[1][1])}
            ELSE current_candidates
      [] conclusion.c = "SetVal" ->
            IF vals[1] # nil THEN current_candidates \cap {vals[1][1]} ELSE {}
      [] conclusion.c = "OnlyVal" ->
            current_candidates \cap {vals[i][1] : i \in {j \in 1..Len(vals) : vals[j] # nil}}

\* lines 75-78
CalcResult(p_val, current_candidates, new_candidates) ==
    IF new_candidates = {}
    THEN [new_candidates |-> None, loc |-> Some(p_val), current_candidates |-> None]
    ELSE [new_candidates |-> Some(new_candidates), loc |-> Some(p_val),
          current_candidates |-> Some(current_candidates)]

\* lines 23-78, once the position term is evaluated
CalcAt(puzzle, conclusion, w, path_cache, p_val) ==
    IF p_val = OOB THEN NoResult
    ELSE IF /\ puzzle.grid[p_val].number # None
            /\ puzzle.grid[p_val].candidates # None
            /\ puzzle.grid[p_val].candidates[1] = {}
    THEN NoResult
    ELSE IF puzzle.grid[p_val].number = None /\ puzzle.grid[p_val].candidates = None
    THEN NoResult
    ELSE CalcResult(p_val, EffectiveCandidates(puzzle.grid[p_val]),
                    NewCandidates(conclusion, EffectiveCandidates(puzzle.grid[p_val]),
                                  eval_values(conclusion, w, puzzle, path_cache)))

\* calculate_new_candidates: (new_candidates, loc, current_candidates); the cell
\* of the tuple is puzzle.grid[loc]
calculate_new_candidates(puzzle, conclusion, w, path_cache) ==
    CalcAt(puzzle, conclusion, w, path_cache,
           eval_term(conclusion.position, w, puzzle, path_cache))

SetCell(puzzle, pos, cell) == [puzzle EXCEPT !.grid[pos] = cell]

\* the write of new_candidates without the commit of a singleton
NarrowedKeepingNumber(cell, new_candidates) ==
    Cell(cell.direction, cell.number, Some(new_candidates))

\* cell.candidates = new_candidates; if len(new_candidates) == 1: cell.number = ...
Narrowed(cell, new_candidates) ==
    Cell(cell.direction,
         IF Cardinality(new_candidates) = 1 THEN Some(CHOOSE v \in new_candidates : TRUE)
         ELSE cell.number,
         Some(new_candidates))

\* apply_conclusion whose contradiction branch empties the candidates but leaves
\* cell.number as it is
ApplyCalcKeepingNumber(puzzle, calc) ==
    IF calc.loc = None
    THEN [result |-> NO_PROGRESS, loc |-> None, puzzle |-> puzzle]
    ELSE IF calc.new_candidates = None
    THEN [result |-> CONTRADICTION, loc |-> calc.loc,
          puzzle |-> SetCell(puzzle, calc.loc[1],
                             Cell(puzzle.grid[calc.loc[1]].direction,
                                  puzzle.grid[calc.loc[1]].number, Some({})))]
    ELSE IF calc.new_candidates # calc.current_candidates
    THEN [result |-> PROGRESS, loc |-> None,
          puzzle |-> SetCell(puzzle, calc.loc[1],
                             Cell(puzzle.grid[calc.loc[1]].direction,
                                  IF Cardinality(calc.new_candidates[1]) = 1
                                  THEN Some(CHOOSE v \in calc.new_candidates[1] : TRUE)
                                  ELSE puzzle.grid[calc.loc[1]].number,
                                  calc.new_candidates))]
    ELSE [result |-> NO_PROGRESS, loc |-> None, puzzle |-> puzzle]

\* apply_conclusion, lines 89-106, on the result of calculate_new_candidates
ApplyCalc(puzzle, calc) ==
    IF calc.loc = None
    THEN [result |-> NO_PROGRESS, loc |-> None, puzzle |-> puzzle]
    ELSE IF calc.new_candidates = None
    THEN [result |-> CONTRADICTION, loc |-> calc.loc,
          puzzle |-> SetCell(puzzle, calc.loc[1],
                             Cell(puzzle.grid[calc.loc[1]].direction, None, Some({})))]
    ELSE IF calc.new_candidates # calc.current_candidates
    THEN [result |-> PROGRESS, loc |-> None,
          puzzle |-> SetCell(puzzle, calc.loc[1],
                             Narrowed(puzzle.grid[calc.loc[1]], calc.new_candidates[1]))]
    ELSE [result |-> NO_PROGRESS, loc |-> None, puzzle |-> puzzle]

\* apply_conclusion: (result, contradiction location, the puzzle after the call)
apply_conclusion(puzzle, conclusion, w, path_cache) ==
    ApplyCalc(puzzle, calculate_new_candidates(puzzle, conclusion, w, path_cache))

NoUndo(kind, puzzle, loc) ==
    [kind |-> kind, puzzle |-> puzzle, loc |-> loc,
     old_candidates_obj |-> None, old_number_obj |-> None]

\* apply_conclusion_with_undo, lines 117-137
ApplyCalcWithUndo(puzzle, calc) ==
    IF calc.loc = None THEN NoUndo("None", puzzle, None)
    ELSE IF calc.new_candidates = None THEN NoUndo(CONTRADICTION, puzzle, calc.loc)
    ELSE IF calc.new_candidates # calc.current_candidates
    THEN [kind |-> "undo",
          puzzle |-> SetCell(puzzle, calc.loc[1],
                             Narrowed(puzzle.grid[calc.loc[1]], calc.new_candidates[1])),
          loc |-> calc.loc,
          old_candidates_obj |-> puzzle.grid[calc.loc[1]].candidates,
          old_number_obj |-> puzzle.grid[calc.loc[1]].number]
    ELSE NoUndo("None", puzzle, None)

\* apply_conclusion_with_undo: None, "CONTRADICTION" or an undo closure over the
\* cell's previous candidates and number; puzzle is the puzzle after the call
apply_conclusion_with_undo(puzzle, conclusion, w, path_cache) ==
    ApplyCalcWithUndo(puzzle, calculate_new_candidates(puzzle, conclusion, w, path_cache))

\* an undo that restores the candidates and leaves cell.number as it is
undo_candidates_only(puzzle, undo_op) ==
    SetCell(puzzle, undo_op.loc[1],
            Cell(puzzle.grid[undo_op.loc[1]].direction,
                 puzzle.grid[undo_op.loc[1]].number, undo_op.old_candidates_obj))

\* the closure undo() of apply_conclusion_with_undo
undo(puzzle, undo_op) ==
    SetCell(puzzle, undo_op.loc[1],
            Cell(puzzle.grid[undo_op.loc[1]].direction,
                 undo_op.old_number_obj, undo_op.old_candidates_obj))

\* ------------------------------------------------------ solver/solver.py
SOLVED == "SOLVED"
NO_SOLUTION == "NO_SOLUTION"
UNDERCONSTRAINED == "UNDERCONSTRAINED"

RECURSIVE InsertByComplexity(_, _)
\* insertion that keeps equal keys in their order of arrival (sorted() is stable)
InsertByComplexity(sorted, r) ==
    IF sorted = <<>> THEN <<r>>
    ELSE IF sorted[Len(sorted)].complexity <= r.complexity THEN Append(sorted, r)
    ELSE Append(InsertByComplexity(SubSeq(sorted, 1, Len(sorted) - 1), r), sorted[Len(sorted)])

RECURSIVE SortedByComplexity(_)
SortedByComplexity(rs) ==
    IF rs = <<>> THEN <<>>
    ELSE InsertByComplexity(SortedByComplexity(SubSeq(rs, 1, Len(rs) - 1)), rs[Len(rs)])

\* Solver.__init__: self.rules
Solver(rs) == SortedByComplexity(rs)

\* an assignment in place of the copy: the name is bound to the source object
alias(src, fresh) == src

\* copy.deepcopy(puzzle): the object the copy lives in (never the source object)
deepcopy(src, fresh) == fresh

\* _initialize_candidates giving every cell the full range, committed ones too
_initialize_candidates_of_all_cells(puzzle) ==
    [puzzle EXCEPT !.grid =
        [pos \in DOMAIN puzzle.grid |->
            Cell(puzzle.grid[pos].direction, puzzle.grid[pos].number,
                 Some(0..(Max2(puzzle.rows, puzzle.cols) - 1)))]]

\* Solver._initialize_candidates
_initialize_candidates(puzzle) ==
    [puzzle EXCEPT !.grid =
        [pos \in DOMAIN puzzle.grid |->
            IF puzzle.grid[pos].number = None
            THEN Cell(puzzle.grid[pos].direction, None,
                      Some(0..(Max2(puzzle.rows, puzzle.cols) - 1)))
            ELSE Cell(puzzle.grid[pos].direction, puzzle.grid[pos].number,
                      Some({puzzle.grid[pos].number[1]}))]]

\* Solver._determine_final_status
_determine_final_status(puzzle) == IF validate(puzzle) THEN SOLVED ELSE UNDERCONSTRAINED

WitnessOutcome(contradiction, loc, puzzle, applied_conclusions) ==
    [contradiction |-> contradiction, loc |-> loc, puzzle |-> puzzle,
     applied_conclusions |-> applied_conclusions]

RECURSIVE ApplyConclusions(_, _, _, _, _, _)
RECURSIVE AfterConclusion(_, _, _, _, _, _)
\* the conclusion loop recording every conclusion it applied, whatever the result
AfterConclusionRecordingAll(res, conclusions, i, w, path_cache, applied_conclusions) ==
    IF res.result = CONTRADICTION
    THEN WitnessOutcome(TRUE, res.loc, res.puzzle, applied_conclusions)
    ELSE ApplyConclusions(res.puzzle, conclusions, i + 1, w, path_cache,
                          Append(applied_conclusions, conclusions[i]))

\* lines 179-189: what follows the application of conclusion i
AfterConclusion(res, conclusions, i, w, path_cache, applied_conclusions) ==
    IF res.result = CONTRADICTION
    THEN WitnessOutcome(TRUE, res.loc, res.puzzle, applied_conclusions)
    ELSE ApplyConclusions(res.puzzle, conclusions, i + 1, w, path_cache,
                          IF res.result = PROGRESS
                          THEN Append(applied_conclusions, conclusions[i])
                          ELSE applied_conclusions)

\* the loop "for conclusion in rule.conclusions" of _try_apply_rule for one
\* witness, from conclusion i on: the puzzle after it, the conclusions that
\* reported PROGRESS, and the contradiction that cut it short, if any
ApplyConclusions(puzzle, conclusions, i, w, path_cache, applied_conclusions) ==
    IF i > Len(conclusions)
    THEN WitnessOutcome(FALSE, None, puzzle, applied_conclusions)
    ELSE AfterConclusion(apply_conclusion(puzzle, conclusions[i], w, path_cache),
                         conclusions, i, w, path_cache, applied_conclusions)

\* one iteration of "for witness in universe.check_all(rule.condition)"
ApplyWitness(puzzle, rule, w, path_cache) ==
    ApplyConclusions(puzzle, rule.conclusions, 1, w, path_cache, <<>>)

\* the witness loop without its "if applied_conclusions" test: the first witness
\* ends it
StopsAtFirstWitness(out) == TRUE

\* the witness loop stops at this outcome: a contradiction or a step
Stops(out) == out.contradiction \/ out.applied_conclusions # <<>>

\* the witnesses at which the witness loop of _try_apply_rule can stop: all
\* witnesses before it applied nothing and left the puzzle as it was
StoppingWitnesses(puzzle, rule, path_cache) ==
    {w \in check_all(rule.condition, puzzle, path_cache) :
        Stops(ApplyWitness(puzzle, rule, w, path_cache))}

\* Solver._check_consistency: valid or not
_check_consistency(puzzle, path_cache) ==
    \A pos \in Positions(puzzle.rows, puzzle.cols) :
        IF puzzle.grid[pos].number = None
        THEN ~(puzzle.grid[pos].candidates = None \/ puzzle.grid[pos].candidates[1] = {})
        ELSE Cardinality(NumbersOf(puzzle, Range(path_cache[pos]))) <= puzzle.grid[pos].number[1]

RECURSIVE _find_contradiction_optimized(_, _, _, _)
RECURSIVE AfterHypothetical(_, _, _, _)
\* lines 372-409: what follows one apply_conclusion_with_undo at this depth
AfterHypothetical(undo_op, rs, path_cache, depth) ==
    CASE undo_op.kind = "None" -> FALSE
      [] undo_op.kind = CONTRADICTION -> TRUE
      [] undo_op.kind = "undo" ->
            IF depth = 1
            THEN ~_check_consistency(undo_op.puzzle, path_cache)
            ELSE _find_contradiction_optimized(undo_op.puzzle, rs, path_cache, depth - 1)

\* Solver._find_contradiction_optimized: TRUE when it returns a trace, FALSE
\* when it returns None. Every application is undone before the next one is
\* tried, so each (rule, witness, conclusion) is tried on the puzzle as passed.
_find_contradiction_optimized(puzzle, rs, path_cache, depth) ==
    IF ~_check_consistency(puzzle, path_cache) THEN TRUE
    ELSE IF depth <= 0 THEN FALSE
    ELSE \E k \in 1..Len(rs) :
            /\ rs[k].kind = "FORule"
            /\ \E w \in check_all(rs[k].condition, puzzle, path_cache) :
                  \E i \in 1..Len(rs[k].conclusions) :
                      AfterHypothetical(
                          apply_conclusion_with_undo(puzzle, rs[k].conclusions[i], w, path_cache),
                          rs, path_cache, depth)

\* the cells of candidates_map: pending, with a non-empty candidate set
MapCells(puzzle) ==
    {pos \in Positions(puzzle.rows, puzzle.cols) :
        /\ puzzle.grid[pos].number = None
        /\ puzzle.grid[pos].candidates # None
        /\ puzzle.grid[pos].candidates[1] # {}}

\* the order of candidates_map sorted by len(cands) with reverse=True
MapBeforeDescending(puzzle, pos, q) ==
    \/ Cardinality(puzzle.grid[pos].candidates[1]) > Cardinality(puzzle.grid[q].candidates[1])
    \/ /\ Cardinality(puzzle.grid[pos].candidates[1]) = Cardinality(puzzle.grid[q].candidates[1])
       /\ RowMajor(puzzle.cols, pos) < RowMajor(puzzle.cols, q)

\* pos comes before q in candidates_map after the stable sort by len(cands)
MapBefore(puzzle, pos, q) ==
    \/ Cardinality(puzzle.grid[pos].candidates[1]) < Cardinality(puzzle.grid[q].candidates[1])
    \/ /\ Cardinality(puzzle.grid[pos].candidates[1]) = Cardinality(puzzle.grid[q].candidates[1])
       /\ RowMajor(puzzle.cols, pos) < RowMajor(puzzle.cols, q)

\* the tentative commit of val at pos in the working grid
Hypothesis(puzzle, pos, val) ==
    SetCell(puzzle, pos, Cell(puzzle.grid[pos].direction, Some(val), Some({val})))

\* the rules of the solver without the complexity filter
hypothesis_rules_unfiltered(rs, rule) == rs

\* line 268: hypothesis_rules
hypothesis_rules(rs, rule) ==
    SelectSeq(rs, LAMBDA r : r.complexity <= rule.max_rule_complexity)

\* the hypothesis (pos, val) makes _find_contradiction_optimized return a trace
Refuted(puzzle, rs, rule, path_cache, pos, val) ==
    _find_contradiction_optimized(Hypothesis(puzzle, pos, val), hypothesis_rules(rs, rule),
                                  path_cache, rule.rule_depth)

\* the (cell, value) pairs at which the loops of _apply_backtrack_rule can find
\* their first trace: the first cell of candidates_map with a refuted value, and
\* any refuted value of it (list(cands) iterates a set)
BacktrackChoices(puzzle, rs, rule, path_cache) ==
    {ch \in UNION {{<<pos, val>> : val \in puzzle.grid[pos].candidates[1]} :
                      pos \in MapCells(puzzle)} :
        /\ Refuted(puzzle, rs, rule, path_cache, ch[1], ch[2])
        /\ \A q \in MapCells(puzzle) :
              MapBefore(puzzle, q, ch[1]) =>
                  \A v \in puzzle.grid[q].candidates[1] :
                      ~Refuted(puzzle, rs, rule, path_cache, q, v)}

\* the real conclusion of a backtrack step
BacktrackConclusion(val) == ExcludeVal(Variable("p"), "=", Constant(Some(val)))

\* ------------------------------------------------- generator/generator.py
\* GenerationStats, the counters generate reads and writes
NoStats ==
    [puzzles_successfully_generated |-> 0, puzzles_rejected_constraints |-> 0,
     puzzles_rejected_no_solution |-> 0, puzzles_rejected_excessive_guessing |-> 0]

\* lines 45-50
total_attempts(stats) ==
    stats.puzzles_successfully_generated + stats.puzzles_rejected_constraints
        + stats.puzzles_rejected_no_solution + stats.puzzles_rejected_excessive_guessing

\* the directions _create_random_grid and the rotation draw from, in list order
allowed_dirs(allow_diagonals) ==
    IF allow_diagonals THEN <<NORTH, EAST, SOUTH, WEST, NORTH_EAST, SOUTH_EAST, SOUTH_WEST, NORTH_WEST>>
    ELSE <<NORTH, EAST, SOUTH, WEST>>

\* Generator._create_random_grid, as a Puzzle: every layout random.choice can give
_create_random_grid(rows, cols, allow_diagonals) ==
    {[rows |-> rows, cols |-> cols, grid |-> g] :
        g \in [Positions(rows, cols) ->
                 {Cell(d, None, None) : d \in Range(allowed_dirs(allow_diagonals))}]}

opposites(d) ==
    CASE d = NORTH -> SOUTH [] d = SOUTH -> NORTH [] d = EAST -> WEST [] d = WEST -> EAST
      [] d = NORTH_EAST -> SOUTH_WEST [] d = SOUTH_WEST -> NORTH_EAST
      [] d = SOUTH_EAST -> NORTH_WEST [] d = NORTH_WEST -> SOUTH_EAST

\* _flip_outward_arrows, lines 329-336: the cells whose arrow leaves the grid
outward_arrows(puzzle) ==
    {pos \in Positions(puzzle.rows, puzzle.cols) :
        NextFrom(puzzle, pos, delta(puzzle.grid[pos].direction)) = OOB}

\* lines 338-339: int(total_cells * OUTWARD_ARROWS_THRESHOLD) below len(outward_arrows)
num_to_flip(puzzle) ==
    Cardinality(outward_arrows(puzzle)) - ((puzzle.rows * puzzle.cols * OutwardPercent) \div 100)

\* lines 352-355: the arrows of to_flip turned to their opposites
Flipped(puzzle, to_flip) ==
    [puzzle EXCEPT !.grid =
        [pos \in DOMAIN puzzle.grid |->
            IF pos \in to_flip
            THEN Cell(opposites(puzzle.grid[pos].direction), puzzle.grid[pos].number,
                      puzzle.grid[pos].candidates)
            ELSE puzzle.grid[pos]]]

\* Generator._flip_outward_arrows: the puzzles random.sample can leave behind
_flip_outward_arrows(puzzle) ==
    IF num_to_flip(puzzle) > 0
    THEN {Flipped(puzzle, to_flip) :
             to_flip \in {sample \in SUBSET outward_arrows(puzzle) :
                             Cardinality(sample) = num_to_flip(puzzle)}}
    ELSE {puzzle}

\* line 102 and line 140
guess_limit(rows, cols) == Max2(CeilDiv(rows * cols * GuessPercent, 100), MinGuessLimit)

max_modifications(rows, cols) ==
    Max2(CeilDiv(rows * cols * ModificationPercent, 100), MinModificationLimit)

\* cell.number = val; cell.candidates = {val}
WithGuess(puzzle, pos, val) ==
    SetCell(puzzle, pos, Cell(puzzle.grid[pos].direction, Some(val), Some({val})))

RECURSIVE ApplyGuesses(_, _)
\* lines 74-77: the recorded guesses written into the copy of base_puzzle
ApplyGuesses(puzzle, guesses) ==
    IF guesses = <<>> THEN puzzle
    ELSE ApplyGuesses(WithGuess(puzzle, <<guesses[1][1], guesses[1][2]>>, guesses[1][3]),
                      Tail(guesses))

\* lines 108-112
empty_cells(puzzle) ==
    {pos \in Positions(puzzle.rows, puzzle.cols) : puzzle.grid[pos].number = None}

RECURSIVE IndexOf(_, _, _)
\* list.index from position i on; 0 when the element is not in the list
IndexOf(list, x, i) ==
    IF i > Len(list) THEN 0 ELSE IF list[i] = x THEN i ELSE IndexOf(list, x, i + 1)

\* lines 148-155: the direction after current_dir in allowed_dirs, cyclically
\* (1-based: allowed_dirs[(current_idx + 1) % len] with current_idx 0-based)
new_dir(dirs, current_dir) ==
    IF IndexOf(dirs, current_dir, 1) = 0 THEN dirs[(1 % Len(dirs)) + 1]
    ELSE dirs[(IndexOf(dirs, current_dir, 1) % Len(dirs)) + 1]

\* a rotation that also turns every other arrow of the grid
RotatedAll(puzzle, pos, dirs) ==
    [puzzle EXCEPT !.grid =
        [q \in DOMAIN puzzle.grid |->
            Cell(new_dir(dirs, puzzle.grid[q].direction),
                 puzzle.grid[q].number, puzzle.grid[q].candidates)]]

\* line 157: base_puzzle.grid[r][c].direction = new_dir
Rotated(puzzle, pos, dirs) ==
    SetCell(puzzle, pos, Cell(new_dir(dirs, puzzle.grid[pos].direction),
                              puzzle.grid[pos].number, puzzle.grid[pos].candidates))

\* generator/constraints.py, the constraints generate is given. A fraction bound
\* is None or Some(<<n, d>>) for the float n / d
UsesRule(rule_name, min_count) == [kind |-> "UsesRule", rule_name |-> rule_name,
                                   min_count |-> min_count]

NumberFraction(number, min_fraction, max_fraction) ==
    [kind |-> "NumberFraction", number |-> number,
     min_fraction |-> min_fraction, max_fraction |-> max_fraction]

\* "fraction < self.min_fraction" and "fraction > self.max_fraction", fraction = count / total
BelowMin(count, total, min_fraction) ==
    min_fraction # None /\ count * min_fraction[1][2] < min_fraction[1][1] * total
AboveMax(count, total, max_fraction) ==
    max_fraction # None /\ count * max_fraction[1][2] > max_fraction[1][1] * total

\* NumberFraction.pre_check, lines 79-90: the cells ahead of pos inside the grid
path_length(puzzle, pos) ==
    Len(RayFrom(puzzle, pos, delta(puzzle.grid[pos].direction)))

LengthCount(puzzle, Fits(_)) ==
    Cardinality({pos \in Positions(puzzle.rows, puzzle.cols) : Fits(path_length(puzzle, pos))})

\* Constraint.pre_check (lines 13-14) and its override NumberFraction.pre_check
\* (lines 74-121), on the arrows of the puzzle alone
pre_check(constraint, puzzle) ==
    IF constraint.kind # "NumberFraction" THEN TRUE
    ELSE IF puzzle.rows * puzzle.cols = 0 THEN TRUE
    ELSE IF constraint.number = 0 THEN
        /\ ~BelowMin(LengthCount(puzzle, LAMBDA n : n = 0), puzzle.rows * puzzle.cols,
                     constraint.min_fraction)
        /\ ~AboveMax(LengthCount(puzzle, LAMBDA n : n = 0), puzzle.rows * puzzle.cols,
                     constraint.max_fraction)
    ELSE IF constraint.number = 1 THEN
        /\ ~BelowMin(LengthCount(puzzle, LAMBDA n : n >= 1), puzzle.rows * puzzle.cols,
                     constraint.min_fraction)
        /\ ~AboveMax(LengthCount(puzzle, LAMBDA n : n = 1), puzzle.rows * puzzle.cols,
                     constraint.max_fraction)
    ELSE ~BelowMin(LengthCount(puzzle, LAMBDA n : n >= constraint.number),
                   puzzle.rows * puzzle.cols, constraint.min_fraction)

\* NumberFraction.check, lines 53-72: the fraction of cells holding the number
NumberCount(puzzle, number) ==
    Cardinality({pos \in Positions(puzzle.rows, puzzle.cols) :
                    puzzle.grid[pos].number = Some(number)})

\* Constraint.check of a trace with these steps and this puzzle
check(constraint, trace_steps, trace_puzzle) ==
    IF constraint.kind = "NumberFraction" THEN
        \/ trace_puzzle.rows * trace_puzzle.cols = 0
        \/ /\ ~BelowMin(NumberCount(trace_puzzle, constraint.number),
                        trace_puzzle.rows * trace_puzzle.cols, constraint.min_fraction)
           /\ ~AboveMax(NumberCount(trace_puzzle, constraint.number),
                        trace_puzzle.rows * trace_puzzle.cols, constraint.max_fraction)
    ELSE Cardinality({k \in 1..Len(trace_steps) :
                         trace_steps[k].rule_name = constraint.rule_name})
             >= constraint.min_count

\* Generator._get_failing_constraint: the index of the first failing one, or 0
_get_failing_constraint(trace_steps, trace_puzzle, constraints) ==
    IF \A k \in 1..Len(constraints) : check(constraints[k], trace_steps, trace_puzzle) THEN 0
    ELSE SetMin({k \in 1..Len(constraints) :
                    ~check(constraints[k], trace_steps, trace_puzzle)})

\* create_solver(max_complexity, rules_file): the rules of the file up to max_complexity
create_solver(max_complexity, rules_file) ==
    Solver(SelectSeq(rules_file, LAMBDA r : r.complexity <= max_complexity))

\* ------------------------------------------------------------ the rule sets
p_var == Variable("p")
val_p == FunctionCall("val", <<p_var>>)

\* exists p (val(p) = nil) => set(p, 0)                  (tests/unit/test_solver.py)
fill_zero == FORule("fill_zero", ExistsPosition(<<Equality(val_p, Constant(nil))>>),
                    <<SetVal(p_var, Constant(<<0>>))>>, 1)
\* exists p (val(p) = nil) => set(p, 1)
fill_one == FORule("fill_one", ExistsPosition(<<Equality(val_p, Constant(nil))>>),
                   <<SetVal(p_var, Constant(<<1>>))>>, 1)
\* exists p (val(p) = 1) => set(p, 0)
contradict == FORule("contradict", ExistsPosition(<<Equality(val_p, Constant(<<1>>))>>),
                     <<SetVal(p_var, Constant(<<0>>))>>, 1)
\* exists p (val(p) = 0) => exclude(p, =, 0)
exclude_zero == FORule("exclude_zero", ExistsPosition(<<Equality(val_p, Constant(<<0>>))>>),
                       <<ExcludeVal(p_var, "=", Constant(<<0>>))>>, 1)
\* exists p (val(p) = 1) => exclude(p, =, 1)         (tests/unit/test_backtracking.py)
suicide_if_one == FORule("suicide_if_one", ExistsPosition(<<Equality(val_p, Constant(<<1>>))>>),
                         <<ExcludeVal(p_var, "=", Constant(<<1>>))>>, 1)
\* exists p (val(p) = 99) => set(p, 1): never matches
high_complexity == FORule("high_complexity", ExistsPosition(<<Equality(val_p, Constant(<<99>>))>>),
                          <<SetVal(p_var, Constant(<<1>>))>>, 5)
\* exists p (ahead(p) = 0) => set(p, 0)
edge_zero == FORule("edge_zero",
                    ExistsPosition(<<Equality(FunctionCall("ahead", <<p_var>>), Constant(<<0>>))>>),
                    <<SetVal(p_var, Constant(<<0>>))>>, 1)
\* exists p (ahead_free(p) = 0) => set(p, sees_distinct(p))
all_seen == FORule("all_seen",
                   ExistsPosition(<<Equality(FunctionCall("ahead_free", <<p_var>>), Constant(<<0>>))>>),
                   <<SetVal(p_var, FunctionCall("sees_distinct", <<p_var>>))>>, 2)
\* exists p (val(p) = nil) => exclude(p, >, ahead(p)), only(next(p), [0, val(p)])
cap_ahead == FORule("cap_ahead", ExistsPosition(<<Equality(val_p, Constant(nil))>>),
                    <<ExcludeVal(p_var, ">", FunctionCall("ahead", <<p_var>>)),
                      OnlyVal(FunctionCall("next", <<p_var>>), <<Constant(<<0>>), val_p>>)>>, 3)
backtrack_check == BacktrackRule("backtrack_check", 2, 1, 1, 1)
backtrack_deep == BacktrackRule("backtrack_deep", 3, 1, 2, 2)

\* the rule lists a solver is built with, as passed to Solver(rules)
RuleLists ==
    { <<>>,
      <<fill_zero>>,
      <<high_complexity, fill_zero>>,
      <<fill_one, contradict>>,
      <<exclude_zero>>,
      <<suicide_if_one, backtrack_check>>,
      <<backtrack_check, exclude_zero>>,
      <<all_seen, edge_zero>>,
      <<cap_ahead, edge_zero>>,
      <<backtrack_deep, edge_zero, all_seen>> }

\* the grid shapes within the bound
Shapes == {sh \in (1..MaxCells) \X (1..MaxCells) : sh[1] * sh[2] <= MaxCells}

CardinalDirections == {NORTH, EAST, SOUTH, WEST}

\* the puzzles of a shape: any arrows, each cell pending or given a value of the
\* solver's range, no candidates yet
Puzzles(rows, cols) ==
    {[rows |-> rows, cols |-> cols, grid |-> g] :
        g \in [Positions(rows, cols) ->
                 {Cell(d, n, None) :
                    d \in CardinalDirections,
                    n \in {None} \cup {Some(v) : v \in 0..(Max2(rows, cols) - 1)}}]}

\* ------------------------------------------------------------------- state
VARIABLES
    rules,                  \* Solver.rules
    objs,                   \* the puzzle objects of a solve call, by name
    puzzle_ref,             \* the object the local "puzzle" of solve refers to
    initial_puzzle_ref,     \* the object "initial_puzzle_copy" of solve refers to
    path_cache_arg,         \* the path_cache argument of solve (None or a cache)
    path_cache,             \* the local path_cache of solve
    reuse_candidates,       \* the reuse_candidates argument of solve
    steps,                  \* solve: steps
    max_complexity_used,    \* solve: max_complexity_used, as returned
    rule_application_count, \* solve: the Counter, as a function on its keys
    rule_index,             \* position of "for rule in self.rules"
    status,                 \* SolverResult.status
    contradiction_location, \* SolverResult.contradiction_location
    pc,                     \* where the solve call is
    gen                     \* the locals of Generator.generate

vars == <<rules, objs, puzzle_ref, initial_puzzle_ref, path_cache_arg, path_cache,
          reuse_candidates, steps, max_complexity_used, rule_application_count,
          rule_index, status, contradiction_location, pc, gen>>

\* the working puzzle of solve, and the initial_puzzle of its result
puzzle == objs[puzzle_ref]

initial_puzzle == objs[initial_puzzle_ref]

NoPaths == [pos \in {} |-> <<>>]

NoCounter == [n \in {} |-> 0]

\* Counter: c[name] = n, an assignment in place of the increment
CounterAssign(c, name, n) == (name :> n) @@ c

\* Counter: c[name] += n
CounterAdd(c, name, n) ==
    IF name \in DOMAIN c THEN [c EXCEPT ![name] = @ + n] ELSE (name :> n) @@ c

SolverStep(rule, w, conclusions_applied, state, trace) ==
    [rule_name |-> rule.name, rule_complexity |-> rule.complexity, witness |-> w,
     conclusions_applied |-> conclusions_applied, puzzle_state |-> state,
     contradiction_trace |-> trace]

\* the objects of a call before its copies are made: only the argument exists
CallObjects(in) == [input |-> in, initial_puzzle_copy |-> in, puzzle |-> in]

\* the state of a solve call on entry
CallSolve(in, cache_arg, reuse) ==
    /\ objs = CallObjects(in)
    /\ puzzle_ref = "input"
    /\ initial_puzzle_ref = "input"
    /\ path_cache_arg = cache_arg
    /\ path_cache = NoPaths
    /\ reuse_candidates = reuse
    /\ steps = <<>>
    /\ max_complexity_used = 0
    /\ rule_application_count = NoCounter
    /\ rule_index = 1
    /\ status = UNDERCONSTRAINED
    /\ contradiction_location = None
    /\ pc = "entry"

NoGen == [gpc |-> "none"]

\* a solver built with one of the rule lists is called on one of the puzzles,
\* without a path cache and without reuse_candidates
Init ==
    /\ \E rs \in RuleLists : rules = Solver(rs)
    /\ \E sh \in Shapes : \E in \in Puzzles(sh[1], sh[2]) : CallSolve(in, None, FALSE)
    /\ gen = NoGen

\* lines 86-90: the two copies, and the candidates of the working copy
EntryObjects(initial, work) ==
    [n \in {"input", "initial_puzzle_copy", "puzzle"} |->
        IF n = work
        THEN (IF reuse_candidates THEN objs["input"] ELSE _initialize_candidates(objs["input"]))
        ELSE IF n = initial THEN objs["input"]
        ELSE objs[n]]

\* solve, lines 83-97: the path cache, the two copies, the candidates
SolveEntry ==
    /\ pc = "entry"
    /\ path_cache' = IF path_cache_arg = None THEN compute_all_paths(objs["input"])
                     ELSE path_cache_arg[1]
    /\ initial_puzzle_ref' = deepcopy("input", "initial_puzzle_copy")
    /\ puzzle_ref' = deepcopy("input", "puzzle")
    /\ objs' = EntryObjects(deepcopy("input", "initial_puzzle_copy"), deepcopy("input", "puzzle"))
    /\ pc' = "loop"
    /\ UNCHANGED <<rules, path_cache_arg, reuse_candidates, steps, max_complexity_used,
                   rule_application_count, rule_index, status, contradiction_location, gen>>

\* the rule the for loop is at
CurrentRule == rules[rule_index]

\* the for loop without its "break": it goes on from the rule that made the step
ContinueIndex(i) == i

\* where the for loop goes on after a rule committed a step: "break", then the
\* next pass of "while True" starts at the first rule
RestartIndex(i) == 1

\* lines 130-136: a rule returned steps
CommitStep(rule, step, after) ==
    /\ objs' = [objs EXCEPT ![puzzle_ref] = after]
    /\ steps' = Append(steps, step)
    /\ rule_application_count' = CounterAdd(rule_application_count, rule.name, 1)
    /\ max_complexity_used' = Max2(max_complexity_used, rule.complexity)
    /\ rule_index' = RestartIndex(rule_index)
    /\ UNCHANGED <<rules, puzzle_ref, initial_puzzle_ref, path_cache_arg, path_cache,
                   reuse_candidates, status, contradiction_location, pc, gen>>

\* lines 118-128: a rule returned NO_SOLUTION with its max_complexity_used
ReturnNoSolution(after, loc, result_max_complexity_used) ==
    /\ objs' = [objs EXCEPT ![puzzle_ref] = after]
    /\ status' = NO_SOLUTION
    /\ contradiction_location' = loc
    /\ max_complexity_used' = Max2(max_complexity_used, result_max_complexity_used)
    /\ pc' = "done"
    /\ UNCHANGED <<rules, puzzle_ref, initial_puzzle_ref, path_cache_arg, path_cache,
                   reuse_candidates, steps, rule_application_count, rule_index, gen>>

\* lines 191-205: the witness made progress, its step is committed
FOCommit(rule, w, out) ==
    /\ ~out.contradiction
    /\ CommitStep(rule, SolverStep(rule, w, out.applied_conclusions, out.puzzle, <<>>),
                  out.puzzle)

\* lines 179-187: a conclusion of the witness reported CONTRADICTION
FOAbort(out) ==
    /\ out.contradiction
    /\ ReturnNoSolution(out.puzzle, out.loc, 0)

\* an FO rule: the first witness that applies anything made progress
FOProgress ==
    /\ pc = "loop"
    /\ rule_index <= Len(rules)
    /\ CurrentRule.kind = "FORule"
    /\ \E w \in StoppingWitnesses(puzzle, CurrentRule, path_cache) :
          FOCommit(CurrentRule, w, ApplyWitness(puzzle, CurrentRule, w, path_cache))

\* an FO rule: the first witness that applies anything ran into a contradiction
FOContradiction ==
    /\ pc = "loop"
    /\ rule_index <= Len(rules)
    /\ CurrentRule.kind = "FORule"
    /\ \E w \in StoppingWitnesses(puzzle, CurrentRule, path_cache) :
          FOAbort(ApplyWitness(puzzle, CurrentRule, w, path_cache))

\* the rule can stop at a witness (FO) or at a refuted hypothesis (backtrack)
CanAct(rule, pz, rs, cache) ==
    IF rule.kind = "FORule" THEN StoppingWitnesses(pz, rule, cache) # {}
    ELSE BacktrackChoices(pz, rs, rule, cache) # {}

\* a rule returned no steps: the for loop moves to the next rule
RuleNoProgress ==
    /\ pc = "loop"
    /\ rule_index <= Len(rules)
    /\ ~CanAct(CurrentRule, puzzle, rules, path_cache)
    /\ rule_index' = rule_index + 1
    /\ UNCHANGED <<rules, objs, puzzle_ref, initial_puzzle_ref, path_cache_arg, path_cache, reuse_candidates,
                   steps, max_complexity_used, rule_application_count, status,
                   contradiction_location, pc, gen>>

\* lines 315-330: the Exclude made progress, its step is committed
BacktrackCommit(rule, pos, conclusion, res) ==
    /\ res.result = PROGRESS
    /\ CommitStep(rule,
                  SolverStep(rule, pos, <<conclusion>>, res.puzzle, <<"Assuming", "trace">>),
                  res.puzzle)

\* lines 305-313: the Exclude emptied the cell
BacktrackAbort(rule, res) ==
    /\ res.result = CONTRADICTION
    /\ ReturnNoSolution(res.puzzle, res.loc, rule.complexity)

\* a backtrack rule: Exclude(cell, =, value) of the first refuted hypothesis
\* made progress
BacktrackProgress ==
    /\ pc = "loop"
    /\ rule_index <= Len(rules)
    /\ CurrentRule.kind = "BacktrackRule"
    /\ \E ch \in BacktrackChoices(puzzle, rules, CurrentRule, path_cache) :
          BacktrackCommit(CurrentRule, ch[1], BacktrackConclusion(ch[2]),
              apply_conclusion(puzzle, BacktrackConclusion(ch[2]), ch[1], path_cache))

\* a backtrack rule: Exclude(cell, =, value) emptied the cell
BacktrackContradiction ==
    /\ pc = "loop"
    /\ rule_index <= Len(rules)
    /\ CurrentRule.kind = "BacktrackRule"
    /\ \E ch \in BacktrackChoices(puzzle, rules, CurrentRule, path_cache) :
          BacktrackAbort(CurrentRule,
              apply_conclusion(puzzle, BacktrackConclusion(ch[2]), ch[1], path_cache))

\* lines 138-151: a pass without progress ends the loop
SolveFinish ==
    /\ pc = "loop"
    /\ rule_index > Len(rules)
    /\ status' = _determine_final_status(puzzle)
    /\ pc' = "done"
    /\ UNCHANGED <<rules, objs, puzzle_ref, initial_puzzle_ref, path_cache_arg, path_cache, reuse_candidates,
                   steps, max_complexity_used, rule_application_count, rule_index,
                   contradiction_location, gen>>

SolveNext ==
    \/ SolveEntry
    \/ FOProgress
    \/ FOContradiction
    \/ RuleNoProgress
    \/ BacktrackProgress
    \/ BacktrackContradiction
    \/ SolveFinish

\* ------------------------------------------------------ Generator.generate
solver_vars == <<rules, objs, puzzle_ref, initial_puzzle_ref, path_cache_arg, path_cache,
                 reuse_candidates, steps, max_complexity_used, rule_application_count,
                 rule_index, status, contradiction_location, pc>>

\* solver.solve(in, path_cache = cache_arg, reuse_candidates = reuse) is entered
SolveCalled(in, cache_arg, reuse) ==
    /\ objs' = CallObjects(in)
    /\ puzzle_ref' = "input"
    /\ initial_puzzle_ref' = "input"
    /\ path_cache_arg' = cache_arg
    /\ path_cache' = NoPaths
    /\ reuse_candidates' = reuse
    /\ steps' = <<>>
    /\ max_complexity_used' = 0
    /\ rule_application_count' = NoCounter
    /\ rule_index' = 1
    /\ status' = UNDERCONSTRAINED
    /\ contradiction_location' = None
    /\ pc' = "entry"

NoPuzzle == [rows |-> 0, cols |-> 0, grid |-> [pos \in {} |-> Cell(NORTH, None, None)]]

\* the contents of the rules file create_solver loads (an input of the run)
RuleFiles ==
    { <<edge_zero, all_seen>>,
      <<backtrack_check, exclude_zero>> }

\* the constraint lists generate is called with
ConstraintLists ==
    { <<>>, <<UsesRule("edge_zero", 1)>>, <<NumberFraction(0, None, Some(<<1, 2>>))>> }

\* generate, lines 39-42: the locals before the first attempt. attempt_guesses is
\* a history of the run, not a local: the guesses appended at line 131 since the
\* current attempt began at line 54 or was restarted at line 160
GenLocals(rows, cols, allow_diagonals, max_complexity, rules_file, constraints, max_attempts) ==
    [gpc |-> "attempt", rows |-> rows, cols |-> cols, allow_diagonals |-> allow_diagonals,
     max_complexity |-> max_complexity, rules_file |-> rules_file,
     constraints |-> constraints, max_attempts |-> max_attempts,
     stats |-> NoStats, extra_fills |-> 0, guesses |-> <<>>, attempt_guesses |-> <<>>,
     current_puzzle |-> NoPuzzle, base_puzzle |-> NoPuzzle, path_cache |-> NoPaths,
     reuse_candidates |-> FALSE, modifications |-> 0,
     clean_puzzle |-> NoPuzzle, result |-> None]

\* Generator().generate(rows, cols, allow_diagonals, max_complexity, constraints,
\* max_attempts) with fresh stats; no solve call is under way
GenInit ==
    /\ \E sh \in Shapes, allow_diagonals \in BOOLEAN, max_complexity \in 1..MaxComplexity,
          rules_file \in RuleFiles, constraints \in ConstraintLists,
          max_attempts \in 0..MaxAttempts :
          /\ gen = GenLocals(sh[1], sh[2], allow_diagonals, max_complexity, rules_file,
                             constraints, max_attempts)
          /\ rules = create_solver(max_complexity, rules_file)
    /\ objs = CallObjects(NoPuzzle)
    /\ puzzle_ref = "input"
    /\ initial_puzzle_ref = "input"
    /\ path_cache_arg = None
    /\ path_cache = NoPaths
    /\ reuse_candidates = FALSE
    /\ steps = <<>>
    /\ max_complexity_used = 0
    /\ rule_application_count = NoCounter
    /\ rule_index = 1
    /\ status = UNDERCONSTRAINED
    /\ contradiction_location = None
    /\ pc = "idle"

\* lines 44-52: the attempts are used up
GenGiveUp ==
    /\ gen.gpc = "attempt"
    /\ total_attempts(gen.stats) >= gen.max_attempts /\ gen.max_attempts # -1
    /\ gen' = [gen EXCEPT !.gpc = "returned", !.result = None]
    /\ UNCHANGED solver_vars

\* lines 58-70: the locals of a new attempt, and its first solve call
AttemptStarted(current_puzzle) ==
    /\ gen' = [gen EXCEPT !.gpc = "solving",
                          !.current_puzzle = current_puzzle,
                          !.path_cache = compute_all_paths(current_puzzle),
                          !.reuse_candidates = FALSE,
                          !.base_puzzle = current_puzzle,
                          !.modifications = 0,
                          !.attempt_guesses = <<>>]
    /\ SolveCalled(current_puzzle, Some(compute_all_paths(current_puzzle)), FALSE)
    /\ UNCHANGED rules

\* lines 54-70: a new attempt: random grid, outward arrows flipped, first solve
GenNewAttempt ==
    /\ gen.gpc = "attempt"
    /\ ~(total_attempts(gen.stats) >= gen.max_attempts /\ gen.max_attempts # -1)
    /\ \E grid \in _create_random_grid(gen.rows, gen.cols, gen.allow_diagonals) :
          \E current_puzzle \in _flip_outward_arrows(grid) :
              AttemptStarted(current_puzzle)

\* lines 74-83: clean_puzzle and the solve call that gives final_trace
FinalSolveCalled(clean_puzzle) ==
    /\ gen' = [gen EXCEPT !.gpc = "final", !.clean_puzzle = clean_puzzle]
    /\ SolveCalled(clean_puzzle, Some(gen.path_cache), FALSE)
    /\ UNCHANGED rules

\* lines 72-83: trace.status == SOLVED
GenSolved ==
    /\ gen.gpc = "solving" /\ pc = "done"
    /\ status = SOLVED
    /\ FinalSolveCalled(ApplyGuesses(gen.base_puzzle, gen.guesses))

\* lines 85-91: no constraint fails, clean_puzzle is returned
GenAccept ==
    /\ gen.gpc = "final" /\ pc = "done"
    /\ _get_failing_constraint(steps, puzzle, gen.constraints) = 0
    /\ gen' = [gen EXCEPT !.gpc = "returned",
                          !.stats.puzzles_successfully_generated = @ + 1,
                          !.result = Some(gen.clean_puzzle)]
    /\ UNCHANGED solver_vars

\* lines 92-97: a constraint fails; failing_constraint.name is read, and no
\* Constraint of constraints.py has that attribute: AttributeError leaves generate
GenRejectConstraints ==
    /\ gen.gpc = "final" /\ pc = "done"
    /\ _get_failing_constraint(steps, puzzle, gen.constraints) # 0
    /\ gen' = [gen EXCEPT !.gpc = "raised",
                          !.stats.puzzles_rejected_constraints = @ + 1]
    /\ UNCHANGED solver_vars

\* "stats.<counter> += 1; break": the attempt is rejected
Rejected(counter) ==
    /\ gen' = [gen EXCEPT !.gpc = "attempt", !.stats[counter] = @ + 1]
    /\ UNCHANGED solver_vars

\* lines 102-105
GenExcessiveGuessing ==
    /\ gen.gpc = "solving" /\ pc = "done"
    /\ status = UNDERCONSTRAINED
    /\ gen.extra_fills >= guess_limit(gen.rows, gen.cols)
    /\ Rejected("puzzles_rejected_excessive_guessing")

\* lines 114-116
GenNoEmptyCells ==
    /\ gen.gpc = "solving" /\ pc = "done"
    /\ status = UNDERCONSTRAINED
    /\ gen.extra_fills < guess_limit(gen.rows, gen.cols)
    /\ empty_cells(puzzle) = {}
    /\ Rejected("puzzles_rejected_no_solution")

\* lines 127-136: the guess is committed in trace.puzzle, recorded, and solved on
Guessed(current_puzzle, pos, val) ==
    /\ gen' = [gen EXCEPT !.gpc = "solving",
                          !.current_puzzle = current_puzzle,
                          !.extra_fills = @ + 1,
                          !.guesses = Append(@, <<pos[1], pos[2], val>>),
                          !.attempt_guesses = Append(@, <<pos[1], pos[2], val>>),
                          !.reuse_candidates = TRUE]
    /\ SolveCalled(current_puzzle, Some(gen.path_cache), TRUE)
    /\ UNCHANGED rules

\* lines 118-136: a random pending cell of trace.puzzle, a random candidate of it
GenGuess ==
    /\ gen.gpc = "solving" /\ pc = "done"
    /\ status = UNDERCONSTRAINED
    /\ gen.extra_fills < guess_limit(gen.rows, gen.cols)
    /\ \E pos \in empty_cells(puzzle) :
          IF puzzle.grid[pos].candidates = None \/ puzzle.grid[pos].candidates = Some({})
          THEN Rejected("puzzles_rejected_no_solution")
          ELSE \E val \in puzzle.grid[pos].candidates[1] :
                  Guessed(WithGuess(puzzle, pos, val), pos, val)

\* the restart after a rotation without line 165: the paths are not computed again
RestartedWithOldPaths(base_puzzle) ==
    /\ gen' = [gen EXCEPT !.gpc = "solving",
                          !.base_puzzle = base_puzzle,
                          !.current_puzzle = base_puzzle,
                          !.extra_fills = 0,
                          !.guesses = <<>>,
                          !.attempt_guesses = <<>>,
                          !.reuse_candidates = FALSE,
                          !.modifications = @ + 1]
    /\ SolveCalled(base_puzzle, Some(gen.path_cache), FALSE)
    /\ UNCHANGED rules

\* lines 157-168: the rotated base becomes the puzzle, guesses are dropped
Restarted(base_puzzle) ==
    /\ gen' = [gen EXCEPT !.gpc = "solving",
                          !.base_puzzle = base_puzzle,
                          !.current_puzzle = base_puzzle,
                          !.extra_fills = 0,
                          !.guesses = <<>>,
                          !.attempt_guesses = <<>>,
                          !.path_cache = compute_all_paths(base_puzzle),
                          !.reuse_candidates = FALSE,
                          !.modifications = @ + 1]
    /\ SolveCalled(base_puzzle, Some(compute_all_paths(base_puzzle)), FALSE)
    /\ UNCHANGED rules

\* lines 140-169: NO_SOLUTION with a location, rotations left
GenRotate ==
    /\ gen.gpc = "solving" /\ pc = "done"
    /\ status = NO_SOLUTION
    /\ gen.modifications < max_modifications(gen.rows, gen.cols)
    /\ contradiction_location # None
    /\ Restarted(Rotated(gen.base_puzzle, contradiction_location[1],
                         allowed_dirs(gen.allow_diagonals)))

\* lines 171-172: NO_SOLUTION, no rotation possible
GenRejectNoSolution ==
    /\ gen.gpc = "solving" /\ pc = "done"
    /\ status = NO_SOLUTION
    /\ ~(/\ gen.modifications < max_modifications(gen.rows, gen.cols)
         /\ contradiction_location # None)
    /\ Rejected("puzzles_rejected_no_solution")

\* tests/integration/test_generator.py, lines 22-26: the returned puzzle is
\* solved again by create_solver(max_complexity).solve(puzzle)
GenResolve ==
    /\ gen.gpc = "returned"
    /\ gen.result # None
    /\ gen' = [gen EXCEPT !.gpc = "resolve"]
    /\ rules' = create_solver(gen.max_complexity, gen.rules_file)
    /\ SolveCalled(gen.result[1], None, FALSE)

GenNext ==
    \/ SolveNext
    \/ GenGiveUp
    \/ GenNewAttempt
    \/ GenSolved
    \/ GenAccept
    \/ GenRejectConstraints
    \/ GenExcessiveGuessing
    \/ GenNoEmptyCells
    \/ GenGuess
    \/ GenRotate
    \/ GenRejectNoSolution
    \/ GenResolve

GenSpec == GenInit /\ [][GenNext]_vars

\* --------------------------------------------------- Generator.generate_many
\* GenerationStats(), lines 14-21
GenerationStats ==
    [puzzles_successfully_generated |-> 0, puzzles_rejected_constraints |-> 0,
     puzzles_rejected_no_solution |-> 0, puzzles_rejected_excessive_guessing |-> 0,
     puzzles_rejected_timeout |-> 0, rejections_per_constraint |-> [n \in {} |-> 0]]

\* how one generate(..., max_attempts = 1) of a worker ends: the counter its
\* single attempt incremented (lines 87, 93, 104, 116, 123, 170)
AttemptOutcomes ==
    {"puzzles_successfully_generated", "puzzles_rejected_constraints",
     "puzzles_rejected_no_solution", "puzzles_rejected_excessive_guessing"}

\* pool.apply_async(self.generate, ...): a task waiting for a worker process
Task == [state |-> "queued", outcome |-> "", timed_out |-> FALSE, collected |-> FALSE]

\* AsyncResult.ready(): the call returned or raised
ready(task) == task.state \in {"returned", "raised"}

\* sorted(completed_indices, reverse = True)
SortedReverse(S) ==
    [k \in 1..Cardinality(S) |-> CHOOSE x \in S : Cardinality({y \in S : y > x}) = k - 1]

\* pending_results.pop(i), the list that is left
Popped(list, i) == SubSeq(list, 1, i - 1) \o SubSeq(list, i + 1, Len(list))

\* lines 184-191: the locals of generate_many before the first submission
ManyLocals(count, n_workers, timeout_seconds) ==
    [gpc |-> "submit", count |-> count, n_workers |-> n_workers,
     timeout_seconds |-> timeout_seconds, now |-> 0,
     puzzles |-> <<>>, total_stats |-> GenerationStats,
     pending_results |-> <<>>, completed_indices |-> <<>>,
     tasks |-> <<>>, terminated |-> FALSE]

\* Generator().generate_many(count, ..., n_jobs, timeout_seconds); no solve call
\* of the parent process is under way
ManyInit ==
    /\ \E count \in 0..MaxCount, n_workers \in 1..MaxWorkers, timeout_seconds \in 1..MaxTimeout :
          gen = ManyLocals(count, n_workers, timeout_seconds)
    /\ rules = <<>>
    /\ objs = CallObjects(NoPuzzle)
    /\ puzzle_ref = "input"
    /\ initial_puzzle_ref = "input"
    /\ path_cache_arg = None
    /\ path_cache = NoPaths
    /\ reuse_candidates = FALSE
    /\ steps = <<>>
    /\ max_complexity_used = 0
    /\ rule_application_count = NoCounter
    /\ rule_index = 1
    /\ status = UNDERCONSTRAINED
    /\ contradiction_location = None
    /\ pc = "idle"

\* lines 195-211: one task per worker, each stamped with time.time()
ManySubmitInitial ==
    /\ gen.gpc = "submit"
    /\ gen' = [gen EXCEPT !.gpc = "poll",
                          !.tasks = [k \in 1..gen.n_workers |-> Task],
                          !.pending_results =
                              [k \in 1..gen.n_workers |-> [start_time |-> gen.now, task |-> k]]]
    /\ UNCHANGED solver_vars

\* the pool: an idle worker process takes the oldest queued task
WorkerStart ==
    /\ ~gen.terminated
    /\ Cardinality({t \in DOMAIN gen.tasks : gen.tasks[t].state = "running"}) < gen.n_workers
    /\ \E t \in DOMAIN gen.tasks :
          /\ gen.tasks[t].state = "queued"
          /\ \A u \in 1..(t - 1) : gen.tasks[u].state # "queued"
          /\ gen' = [gen EXCEPT !.tasks[t].state = "running"]
    /\ UNCHANGED solver_vars

\* a worker's generate(..., max_attempts = 1) ends: it returns (puzzle, stats) or
\* (None, stats), or raises at line 94 after counting a constraint rejection;
\* a generate that never ends keeps its worker running
WorkerFinish ==
    /\ ~gen.terminated
    /\ \E t \in DOMAIN gen.tasks, outcome \in AttemptOutcomes :
          /\ gen.tasks[t].state = "running"
          /\ gen' = [gen EXCEPT !.tasks[t].state =
                                    IF outcome = "puzzles_rejected_constraints"
                                    THEN "raised" ELSE "returned",
                                !.tasks[t].outcome = outcome]
    /\ UNCHANGED solver_vars

\* wall clock time passes (time.time(), time.sleep(0.05))
Tick ==
    /\ gen.gpc \in {"submit", "poll", "process"}
    /\ gen.now < MaxTime
    /\ gen' = [gen EXCEPT !.now = @ + 1]
    /\ UNCHANGED solver_vars

\* lines 216-223: the indices of the pending results that are ready or too old
Completed(g) ==
    {i \in 1..Len(g.pending_results) :
        \/ ready(g.tasks[g.pending_results[i].task])
        \/ g.now - g.pending_results[i].start_time > g.timeout_seconds}

\* lines 214-230: one round of the while loop finds something to process
ManyPoll ==
    /\ gen.gpc = "poll"
    /\ Len(gen.puzzles) < gen.count
    /\ Completed(gen) # {}
    /\ gen' = [gen EXCEPT !.gpc = "process",
                          !.completed_indices = SortedReverse(Completed(gen))]
    /\ UNCHANGED solver_vars

\* lines 232-253: the popped result is counted as a timeout, dropped because
\* res.get() raised (except Exception: pass), or added to total_stats and puzzles
Collected(g, t) ==
    IF ~ready(g.tasks[t])
    THEN [g EXCEPT !.total_stats.puzzles_rejected_timeout = @ + 1,
                   !.tasks[t].timed_out = TRUE]
    ELSE IF g.tasks[t].state = "raised"
    THEN [g EXCEPT !.tasks[t].collected = TRUE]
    ELSE [g EXCEPT !.total_stats[g.tasks[t].outcome] = @ + 1,
                   !.tasks[t].collected = TRUE,
                   !.puzzles = IF g.tasks[t].outcome = "puzzles_successfully_generated"
                               THEN Append(@, t) ELSE @]

\* lines 276-294: a replacement task is submitted, or the for loop is left
Resubmitted(g, rest) ==
    IF Len(g.puzzles) < g.count
    THEN [g EXCEPT !.tasks = Append(@, Task),
                   !.pending_results = Append(@, [start_time |-> g.now, task |-> Len(g.tasks) + 1]),
                   !.completed_indices = rest,
                   !.gpc = IF rest = <<>> THEN "poll" ELSE "process"]
    ELSE [g EXCEPT !.completed_indices = <<>>, !.gpc = "poll"]

\* lines 230-294: one iteration of the for loop over the completed indices
ManyProcess ==
    /\ gen.gpc = "process"
    /\ Len(gen.tasks) < MaxTasks
    /\ gen' = Resubmitted(
                 Collected([gen EXCEPT !.pending_results = Popped(@, Head(gen.completed_indices))],
                           gen.pending_results[Head(gen.completed_indices)].task),
                 Tail(gen.completed_indices))
    /\ UNCHANGED solver_vars

\* lines 214, 296-301: enough puzzles; pool.terminate() ends every worker
ManyReturn ==
    /\ gen.gpc = "poll"
    /\ Len(gen.puzzles) >= gen.count
    /\ gen' = [gen EXCEPT !.gpc = "returned", !.terminated = TRUE,
                          !.tasks = [t \in DOMAIN gen.tasks |->
                                        IF ready(gen.tasks[t]) THEN gen.tasks[t]
                                        ELSE [gen.tasks[t] EXCEPT !.state = "terminated"]]]
    /\ UNCHANGED solver_vars

ManyNext ==
    \/ ManySubmitInitial
    \/ WorkerStart
    \/ WorkerFinish
    \/ Tick
    \/ ManyPoll
    \/ ManyProcess
    \/ ManyReturn

ManySpec == ManyInit /\ [][ManyNext]_vars

\* ------------------------------------------- loading and optimising a rule
q_var == Variable("q")
i_var == Variable("i")
next_p == FunctionCall("next", <<p_var>>)
val_q == FunctionCall("val", <<q_var>>)
ahead_p == FunctionCall("ahead", <<p_var>>)

\* the conditions of the rules that are loaded
Conditions ==
    { \* exists p (val(p) = nil)
      Exists(POSITION, <<p_var>>, Equality(val_p, Constant_nil)),
      \* exists p, q (val(p) = 0 ^ val(q) = 1)          (tests/unit/test_optimizer.py)
      Exists(POSITION, <<p_var, q_var>>,
             And(<<Equality(val_p, Constant(<<0>>)), Equality(val_q, Constant(<<1>>))>>)),
      \* exists q, p (~(val(q) = nil) ^ next(p) = q)     (tests/unit/test_optimizer.py)
      Exists(POSITION, <<q_var, p_var>>,
             And(<<Not(Equality(val_q, Constant_nil)), Equality(next_p, q_var)>>)),
      \* exists p, q (next(p) = q ^ val(q) = nil)
      Exists(POSITION, <<p_var, q_var>>,
             And(<<Equality(next_p, q_var), Equality(val_q, Constant_nil)>>)),
      \* exists p (exists i (~(val(p) = i) ^ candidate(p, i)))  (tests/unit/test_optimizer.py)
      Exists(POSITION, <<p_var>>,
             Exists(NUMBER, <<i_var>>,
                    And(<<Not(Equality(val_p, i_var)), Relation("candidate", <<p_var, i_var>>)>>))),
      \* exists p (exists i (i = val(p) ^ ahead(p) = 0))
      Exists(POSITION, <<p_var>>,
             Exists(NUMBER, <<i_var>>,
                    And(<<Equality(i_var, val_p), Equality(ahead_p, Constant(<<0>>))>>))),
      \* exists p (forall q (p = q))                  (tests/unit/test_type_checking.py)
      Exists(POSITION, <<p_var>>, ForAll(POSITION, <<q_var>>, Equality(p_var, q_var))),
      \* exists p (~(exists q (next(p) = q)))
      Exists(POSITION, <<p_var>>, Not(Exists(POSITION, <<q_var>>, Equality(next_p, q_var)))),
      \* exists p (val(p) = 0 v ahead(p) = 0)
      Exists(POSITION, <<p_var>>,
             Or(<<Equality(val_p, Constant(<<0>>)), Equality(ahead_p, Constant(<<0>>))>>)) }

\* the conclusion lists of the rules that are loaded
ConclusionLists ==
    { <<SetVal(p_var, Constant(<<0>>))>>,
      <<SetVal(q_var, Constant(<<0>>))>>,
      <<SetVal(p_var, Constant(<<0>>)), SetVal(q_var, Constant(<<1>>))>>,
      <<ExcludeVal(p_var, "=", i_var)>>,
      <<OnlyVal(p_var, <<val_q, Constant(<<0>>)>>)>>,
      <<SetVal(i_var, Constant(<<0>>))>> }

\* the universes the loaded rule is evaluated on
Universes == UNION {Puzzles(sh[1], sh[2]) : sh \in Shapes}

\* a rule as parse_rule returns it, and the puzzle of the universe it will be
\* evaluated on; no solve call is under way
LoadInit ==
    /\ \E condition \in Conditions, conclusions \in ConclusionLists, pz \in Universes :
          gen = [gpc |-> "parsed", puzzle |-> pz,
                 original |-> FORule("rule", condition, conclusions, 1),
                 rule |-> FORule("rule", condition, conclusions, 1)]
    /\ rules = <<>>
    /\ objs = CallObjects(NoPuzzle)
    /\ puzzle_ref = "input"
    /\ initial_puzzle_ref = "input"
    /\ path_cache_arg = None
    /\ path_cache = NoPaths
    /\ reuse_candidates = FALSE
    /\ steps = <<>>
    /\ max_complexity_used = 0
    /\ rule_application_count = NoCounter
    /\ rule_index = 1
    /\ status = UNDERCONSTRAINED
    /\ contradiction_location = None
    /\ pc = "idle"

\* create_solver, line 493: the type check before optimisation
LoadCheck ==
    /\ gen.gpc = "parsed"
    /\ gen' = [gen EXCEPT !.gpc =
                  IF check_rule(gen.rule, TYPE_CONSTANTS, TYPE_FUNCTIONS, TYPE_RELATIONS) = TypeError
                  THEN "TypeError" ELSE "checked"]
    /\ UNCHANGED solver_vars

\* create_solver, line 496: rule.condition = optimize(rule.condition)
LoadOptimize ==
    /\ gen.gpc = "checked"
    /\ gen' = [gen EXCEPT !.gpc = "optimized", !.rule.condition = optimize(@)]
    /\ UNCHANGED solver_vars

\* create_solver, lines 499-501: the type check after optimisation
LoadRecheck ==
    /\ gen.gpc = "optimized"
    /\ gen' = [gen EXCEPT !.gpc =
                  IF check_rule(gen.rule, TYPE_CONSTANTS, TYPE_FUNCTIONS, TYPE_RELATIONS) = TypeError
                  THEN "TypeError after optimize" ELSE "loaded"]
    /\ UNCHANGED solver_vars

\* optimize_rule(rule) on a rule that passed the type check
LoadOptimizeRule ==
    /\ gen.gpc = "checked"
    /\ gen' = [gen EXCEPT !.gpc = "rule_optimized", !.rule = optimize_rule(@)]
    /\ UNCHANGED solver_vars

LoadNext ==
    \/ LoadCheck
    \/ LoadOptimize
    \/ LoadRecheck
    \/ LoadOptimizeRule

LoadSpec == LoadInit /\ [][LoadNext]_vars

\* ------------------------------------------- writing and reading the text
\* the solved puzzle of one row of n EAST arrows: each cell holds the number of
\* distinct values ahead of it (Puzzle.validate() accepts it)
SolvedLine(n) ==
    [rows |-> 1, cols |-> n,
     grid |-> [pos \in Positions(1, n) |-> Cell(EAST, Some(n - 1 - pos[2]), None)]]

\* the puzzles written and read back: every small grid with any of the eight
\* arrows and each cell pending or given a value of the solver's range, and the
\* solved lines up to MaxLine cells
TextPuzzles ==
    UNION {{[rows |-> sh[1], cols |-> sh[2], grid |-> g] :
               g \in [Positions(sh[1], sh[2]) ->
                        {Cell(d, n, None) :
                            d \in Direction,
                            n \in {None} \cup {Some(v) : v \in 0..(Max2(sh[1], sh[2]) - 1)}}]} :
           sh \in Shapes}
    \cup {SolvedLine(n) : n \in 1..MaxLine}

\* the cells written and read back
TextCells ==
    {Cell(d, n, None) : d \in Direction, n \in {None} \cup {Some(v) : v \in 0..MaxNumber}}

\* a Puzzle or a Cell value about to be written; no solve call is under way
TextInit ==
    /\ \/ \E pz \in TextPuzzles :
             gen = [gpc |-> "puzzle", value |-> pz, text |-> <<>>, result |-> None]
       \/ \E cell \in TextCells :
             gen = [gpc |-> "cell", value |-> cell, text |-> <<>>, result |-> None]
    /\ rules = <<>>
    /\ objs = CallObjects(NoPuzzle)
    /\ puzzle_ref = "input"
    /\ initial_puzzle_ref = "input"
    /\ path_cache_arg = None
    /\ path_cache = NoPaths
    /\ reuse_candidates = FALSE
    /\ steps = <<>>
    /\ max_complexity_used = 0
    /\ rule_application_count = NoCounter
    /\ rule_index = 1
    /\ status = UNDERCONSTRAINED
    /\ contradiction_location = None
    /\ pc = "idle"

\* text = p.to_string()
PuzzleToString ==
    /\ gen.gpc = "puzzle"
    /\ gen' = [gen EXCEPT !.gpc = "puzzle_text", !.text = Puzzle_to_string(gen.value)]
    /\ UNCHANGED solver_vars

\* Puzzle.from_string(text): the puzzle read, or ValueError raised
PuzzleFromString ==
    /\ gen.gpc = "puzzle_text"
    /\ gen' = [gen EXCEPT !.gpc = "puzzle_read", !.result = Puzzle_from_string(gen.text)]
    /\ UNCHANGED solver_vars

\* text = str(c)
CellToString ==
    /\ gen.gpc = "cell"
    /\ gen' = [gen EXCEPT !.gpc = "cell_text", !.text = Cell__str__(gen.value)]
    /\ UNCHANGED solver_vars

\* Cell.from_string(text): the cell read, or ValueError raised
CellFromString ==
    /\ gen.gpc = "cell_text"
    /\ gen' = [gen EXCEPT !.gpc = "cell_read", !.result = Cell_from_string(gen.text)]
    /\ UNCHANGED solver_vars

TextNext ==
    \/ PuzzleToString
    \/ PuzzleFromString
    \/ CellToString
    \/ CellFromString

TextSpec == TextInit /\ [][TextNext]_vars

\* ------------------------------------------------- applying one conclusion
\* the cells a solve call works on: a pending cell with its candidates, a
\* committed cell with the candidates {number}
ApplyCells(limit) ==
    {Cell(d, None, Some(cs)) : d \in {EAST, WEST}, cs \in SUBSET (0..(limit - 1))}
    \cup {Cell(d, Some(v), Some({v})) : d \in {EAST, WEST}, v \in 0..(limit - 1)}

\* the puzzles a conclusion is applied to: one row of up to MaxApplyCols cells
ApplyPuzzles ==
    UNION {{[rows |-> 1, cols |-> n, grid |-> g] :
               g \in [Positions(1, n) -> ApplyCells(n)]} : n \in 1..MaxApplyCols}

\* the conclusions that are applied
ConclusionsApplied ==
    { SetVal(p_var, Constant(<<0>>)),
      SetVal(p_var, Constant(nil)),
      SetVal(next_p, Constant(<<1>>)),
      SetVal(p_var, FunctionCall("val", <<next_p>>)),
      ExcludeVal(p_var, "=", Constant(<<1>>)),
      ExcludeVal(p_var, ">", Constant(<<0>>)),
      ExcludeVal(p_var, "<", Constant(<<1>>)),
      ExcludeVal(p_var, ">=", Constant(<<1>>)),
      ExcludeVal(p_var, "<=", Constant(<<1>>)),
      ExcludeVal(p_var, "!=", Constant(<<1>>)),
      ExcludeVal(next_p, "=", Constant(nil)),
      OnlyVal(p_var, <<Constant(<<1>>), Constant(<<2>>)>>),
      OnlyVal(p_var, <<Constant(nil), FunctionCall("val", <<next_p>>)>>) }

\* a puzzle of a solve call, a conclusion and a witness {p: pos} of its rule's
\* condition; no solve call is under way
ApplyInit ==
    /\ \E pz \in ApplyPuzzles, conclusion \in ConclusionsApplied :
          \E pos \in Positions(pz.rows, pz.cols) :
             gen = [gpc |-> "before", before |-> pz, puzzle |-> pz,
                    conclusion |-> conclusion, witness |-> pos,
                    result |-> "", loc |-> None,
                    handle |-> NoUndo("None", pz, None)]
    /\ rules = <<>>
    /\ objs = CallObjects(NoPuzzle)
    /\ puzzle_ref = "input"
    /\ initial_puzzle_ref = "input"
    /\ path_cache_arg = None
    /\ path_cache = NoPaths
    /\ reuse_candidates = FALSE
    /\ steps = <<>>
    /\ max_complexity_used = 0
    /\ rule_application_count = NoCounter
    /\ rule_index = 1
    /\ status = UNDERCONSTRAINED
    /\ contradiction_location = None
    /\ pc = "idle"

\* the state after a = apply_conclusion(puzzle, conclusion, witness, universe)
Applied(g, a) ==
    [g EXCEPT !.gpc = "applied", !.puzzle = a.puzzle, !.result = a.result, !.loc = a.loc]

\* result, loc = apply_conclusion(puzzle, conclusion, witness, universe)
ApplyConclusion ==
    /\ gen.gpc = "before"
    /\ gen' = Applied(gen, apply_conclusion(gen.puzzle, gen.conclusion, gen.witness,
                                            compute_all_paths(gen.puzzle)))
    /\ UNCHANGED solver_vars

\* the state after u = apply_conclusion_with_undo(puzzle, conclusion, witness, universe)
AppliedWithUndo(g, u) ==
    [g EXCEPT !.gpc = "applied_with_undo", !.puzzle = u.puzzle, !.result = u.kind,
              !.loc = u.loc, !.handle = u]

\* res = apply_conclusion_with_undo(puzzle, conclusion, witness, universe)
ApplyConclusionWithUndo ==
    /\ gen.gpc = "before"
    /\ gen' = AppliedWithUndo(gen, apply_conclusion_with_undo(gen.puzzle, gen.conclusion,
                                                              gen.witness,
                                                              compute_all_paths(gen.puzzle)))
    /\ UNCHANGED solver_vars

\* res() for a handle res that apply_conclusion_with_undo returned
Undo ==
    /\ gen.gpc = "applied_with_undo"
    /\ gen.result = "undo"
    /\ gen' = [gen EXCEPT !.gpc = "undone", !.puzzle = undo(gen.puzzle, gen.handle)]
    /\ UNCHANGED solver_vars

ApplyNext ==
    \/ ApplyConclusion
    \/ ApplyConclusionWithUndo
    \/ Undo

ApplySpec == ApplyInit /\ [][ApplyNext]_vars

Next == SolveNext

Spec == Init /\ [][Next]_vars

\* ------------------------------------------------------------- properties
\* the values a cell sees on its ray, read off the grid cell by cell
SeenValues(pz, pos) ==
    {v \in 0..(pz.rows + pz.cols) :
        \E k \in 1..(pz.rows + pz.cols) :
            /\ InGrid(pz.rows, pz.cols,
                      pos[1] + k * delta(pz.grid[pos].direction)[1],
                      pos[2] + k * delta(pz.grid[pos].direction)[2])
            /\ pz.grid[<<pos[1] + k * delta(pz.grid[pos].direction)[1],
                         pos[2] + k * delta(pz.grid[pos].direction)[2]>>].number = Some(v)}

\* every cell is committed to the number of distinct values on its ray
SolvedForm(pz) ==
    \A pos \in Positions(pz.rows, pz.cols) :
        /\ pz.grid[pos].number # None
        /\ pz.grid[pos].number[1] = Cardinality(SeenValues(pz, pos))

\* the working puzzle as it was before step k of the result
StateBefore(k) ==
    IF k = 1 THEN _initialize_candidates(initial_puzzle) ELSE steps[k - 1].puzzle_state

\* the place of the rule of that name in Solver.rules
RuleIndexOf(name) == CHOOSE i \in 1..Len(rules) : rules[i].name = name

\* C1: when solve returns after its fixpoint loop, the status is SOLVED exactly
\* when every cell of the working puzzle is committed to the number of distinct
\* values on its ray, it is UNDERCONSTRAINED otherwise, and a SOLVED result has
\* no pending cell.
C1_SolvedIffValid ==
    (pc = "done" /\ status # NO_SOLUTION) =>
        /\ status = SOLVED <=> SolvedForm(puzzle)
        /\ status # SOLVED => status = UNDERCONSTRAINED
        /\ status = SOLVED => \A pos \in DOMAIN puzzle.grid : puzzle.grid[pos].number # None

\* a partial two-cell puzzle was completed by rule steps and reported SOLVED
C1_Witness ==
    /\ pc = "done" /\ status = SOLVED
    /\ steps # <<>>
    /\ Cardinality(DOMAIN puzzle.grid) = 2
    /\ \E pos \in DOMAIN initial_puzzle.grid : initial_puzzle.grid[pos].number = None

\* C2: the puzzle generate returned, solved again by a solver of the same
\* max_complexity from fresh candidates, gives SOLVED.
C2_ReturnedPuzzleSolves ==
    (gen.gpc = "resolve" /\ pc = "done") => status = SOLVED

\* the rule makes progress at some witness (FO) or refuted hypothesis (backtrack)
CouldProgress(rule, pz) ==
    IF rule.kind = "FORule"
    THEN \E w \in check_all(rule.condition, pz, path_cache) :
            ApplyWitness(pz, rule, w, path_cache).applied_conclusions # <<>>
    ELSE BacktrackChoices(pz, rules, rule, path_cache) # {}

\* C3: Solver.rules is in ascending complexity order, and for every recorded
\* step no rule placed before the step's rule could make progress on the puzzle
\* as it was immediately before the step.
C3_LowestRuleFirst ==
    (pc \in {"loop", "done"}) =>
        /\ \A i, j \in 1..Len(rules) : i < j => rules[i].complexity <= rules[j].complexity
        /\ \A k \in 1..Len(steps) :
              \A i \in 1..(RuleIndexOf(steps[k].rule_name) - 1) :
                  ~CouldProgress(rules[i], StateBefore(k))

\* a later rule of the list made the second step, after a step of the first rule
C3_Witness ==
    /\ pc = "done"
    /\ Len(steps) >= 2
    /\ RuleIndexOf(steps[1].rule_name) = 1
    /\ RuleIndexOf(steps[2].rule_name) > 1
    /\ rules[1].complexity < rules[RuleIndexOf(steps[2].rule_name)].complexity

\* C4: a NO_SOLUTION result names a cell of the grid as contradiction_location,
\* and in the returned puzzle that cell is pending with an empty candidate set.
C4_ContradictionCell ==
    (status = NO_SOLUTION) =>
        /\ pc = "done"
        /\ contradiction_location # None
        /\ contradiction_location[1] \in Positions(puzzle.rows, puzzle.cols)
        /\ puzzle.grid[contradiction_location[1]].number = None
        /\ puzzle.grid[contradiction_location[1]].candidates = Some({})

\* NO_SOLUTION at a cell that was committed in the input
C4_Witness ==
    /\ status = NO_SOLUTION
    /\ contradiction_location # None
    /\ initial_puzzle.grid[contradiction_location[1]].number # None

\* the largest rule_complexity over a list of steps, 0 for the empty list
MaxStepComplexity(ss) ==
    IF ss = <<>> THEN 0 ELSE SetMax({ss[k].rule_complexity : k \in 1..Len(ss)})

\* C5: for every result, max_complexity_used is the maximum rule_complexity over
\* result.steps, and 0 when there is no step.
C5_MaxComplexityOverSteps ==
    (pc = "done") => max_complexity_used = MaxStepComplexity(steps)

RECURSIVE ProgressOf(_, _, _)
\* the conclusions of the list that change the puzzle when applied in order at w
ChangedThen(pz, after, conclusions, w) ==
    (IF after # pz THEN <<conclusions[1]>> ELSE <<>>) \o ProgressOf(after, Tail(conclusions), w)

ProgressOf(pz, conclusions, w) ==
    IF conclusions = <<>> THEN <<>>
    ELSE ChangedThen(pz, apply_conclusion(pz, conclusions[1], w, path_cache).puzzle,
                     conclusions, w)

\* the conclusions a step had to choose from: those of its FO rule, or the one
\* Exclude(p, =, value) of a backtrack step
ConclusionsOf(step) ==
    IF rules[RuleIndexOf(step.rule_name)].kind = "FORule"
    THEN rules[RuleIndexOf(step.rule_name)].conclusions
    ELSE <<BacktrackConclusion(step.conclusions_applied[1].values[1].value[1])>>

\* C6: every step of the result has a non-empty conclusions_applied, which is
\* exactly the conclusions that changed the puzzle when applied in order at the
\* step's witness, and its puzzle_state differs from the state before the step
\* in the candidate set of at least one cell.
C6_StepsAreProgress ==
    \A k \in 1..Len(steps) :
        /\ steps[k].conclusions_applied # <<>>
        /\ steps[k].conclusions_applied =
              ProgressOf(StateBefore(k), ConclusionsOf(steps[k]), steps[k].witness)
        /\ \E pos \in DOMAIN steps[k].puzzle_state.grid :
              steps[k].puzzle_state.grid[pos].candidates # StateBefore(k).grid[pos].candidates

\* a step of a rule with two conclusions of which only one made progress
C6_Witness ==
    \E k \in 1..Len(steps) :
        /\ rules[RuleIndexOf(steps[k].rule_name)].kind = "FORule"
        /\ Len(rules[RuleIndexOf(steps[k].rule_name)].conclusions) = 2
        /\ Len(steps[k].conclusions_applied) = 1

\* C7: rule_application_count has an entry exactly for the rule names that occur
\* in steps, and the entry is the number of steps of that name (so the entries
\* sum to len(steps)).
C7_CountsMatchSteps ==
    /\ DOMAIN rule_application_count = {steps[k].rule_name : k \in 1..Len(steps)}
    /\ \A n \in DOMAIN rule_application_count :
          rule_application_count[n] = Cardinality({k \in 1..Len(steps) : steps[k].rule_name = n})

\* a result in which one rule made two steps and another rule made none
C7_Witness ==
    /\ pc = "done"
    /\ \E n \in DOMAIN rule_application_count : rule_application_count[n] >= 2
    /\ \E i \in 1..Len(rules) : rules[i].name \notin DOMAIN rule_application_count

\* some FO rule has a witness at which one of its conclusions contradicts
SomeRuleContradicts(pz) ==
    \E i \in 1..Len(rules) :
        /\ rules[i].kind = "FORule"
        /\ \E w \in check_all(rules[i].condition, pz, path_cache) :
              ApplyWitness(pz, rules[i], w, path_cache).contradiction

\* C8 as stated: on an input in solved form solve returns SOLVED with no step,
\* max_complexity_used 0 and no rule application, for every rule set.
C8_SolvedInputSolved ==
    (pc = "done" /\ SolvedForm(objs["input"])) =>
        /\ status = SOLVED
        /\ steps = <<>>
        /\ max_complexity_used = 0
        /\ rule_application_count = NoCounter

\* C8, amended: on an input in solved form a solve call never records a step,
\* never raises max_complexity_used above 0 and never counts a rule application,
\* for every rule set; it returns NO_SOLUTION, with a contradiction_location,
\* when a conclusion of some FO rule contradicts a committed cell, and SOLVED
\* otherwise.
C8_SolvedInputNoSteps ==
    (pc \in {"loop", "done"} /\ SolvedForm(objs["input"])) =>
        /\ steps = <<>>
        /\ max_complexity_used = 0
        /\ rule_application_count = NoCounter
        /\ pc = "done" =>
              IF SomeRuleContradicts(_initialize_candidates(objs["input"]))
              THEN status = NO_SOLUTION /\ contradiction_location # None
              ELSE status = SOLVED

\* a two-cell input in solved form on which a rule of the solver has witnesses
C8_Witness ==
    /\ pc = "done" /\ status = SOLVED
    /\ SolvedForm(objs["input"])
    /\ Cardinality(DOMAIN objs["input"].grid) = 2
    /\ \E i \in 1..Len(rules) :
          /\ rules[i].kind = "FORule"
          /\ check_all(rules[i].condition, puzzle, path_cache) # {}

\* C9: no step of a solve call changes the puzzle object passed to it, the
\* solver works on an object of its own, and the initial_puzzle of the result
\* equals the input.
C9_InputUntouched ==
    /\ [][objs'["input"] = objs["input"]]_vars
    /\ [](pc \in {"loop", "done"} =>
            /\ puzzle_ref # "input"
            /\ initial_puzzle_ref # "input"
            /\ initial_puzzle = objs["input"])

\* a call that returned after two steps on its working copy
C9_Witness ==
    /\ pc = "done"
    /\ Len(steps) >= 2
    /\ puzzle # objs["input"]
    /\ status = UNDERCONSTRAINED

\* committed cells have candidates {value}, pending cells a non-empty set, and
\* the cell at loc (if any) is pending with no candidate
CandidatesWellFormed(pz, loc) ==
    \A pos \in Positions(pz.rows, pz.cols) :
        IF loc = Some(pos)
        THEN pz.grid[pos].number = None /\ pz.grid[pos].candidates = Some({})
        ELSE /\ pz.grid[pos].candidates # None
             /\ pz.grid[pos].number # None =>
                    pz.grid[pos].candidates = Some({pz.grid[pos].number[1]})
             /\ pz.grid[pos].number = None => pz.grid[pos].candidates[1] # {}

\* C10: without reuse_candidates the working puzzle starts with {0..max(rows,
\* cols)-1} on pending cells and {value} on committed ones, and from then on, in
\* the working puzzle and in every recorded puzzle_state, a committed cell has
\* candidates {value} and a pending cell a non-empty set, except the cell named
\* by contradiction_location, which is pending with an empty set.
C10_CandidateSets ==
    (pc \in {"loop", "done"}) =>
        /\ CandidatesWellFormed(puzzle, contradiction_location)
        /\ \A k \in 1..Len(steps) : CandidatesWellFormed(steps[k].puzzle_state, None)
        /\ (steps = <<>> /\ contradiction_location = None) =>
              \A pos \in DOMAIN puzzle.grid :
                  puzzle.grid[pos].candidates =
                      IF objs["input"].grid[pos].number = None
                      THEN Some(0..(Max2(puzzle.rows, puzzle.cols) - 1))
                      ELSE Some({objs["input"].grid[pos].number[1]})

\* a result in which a step committed one cell while another is still pending
C10_Witness ==
    /\ pc = "done"
    /\ steps # <<>>
    /\ \E pos \in DOMAIN puzzle.grid :
          puzzle.grid[pos].number # None /\ objs["input"].grid[pos].number = None
    /\ \E pos \in DOMAIN puzzle.grid :
          puzzle.grid[pos].number = None /\ Cardinality(puzzle.grid[pos].candidates[1]) = 2


\* C11: the puzzle generate returns has the arrows of the attempt's final base,
\* its committed cells are exactly the guesses made in that attempt since its
\* last rotation, and every other cell is pending without candidates.
C11_ReturnedIsBasePlusAttemptGuesses ==
    (gen.gpc = "returned" /\ gen.result # None) =>
        \A pos \in Positions(gen.rows, gen.cols) :
            /\ gen.result[1].grid[pos].direction = gen.base_puzzle.grid[pos].direction
            /\ IF \E g \in Range(gen.attempt_guesses) : <<g[1], g[2]>> = pos
               THEN \E g \in Range(gen.attempt_guesses) :
                       /\ <<g[1], g[2]>> = pos
                       /\ gen.result[1].grid[pos].number = Some(g[3])
                       /\ gen.result[1].grid[pos].candidates = Some({g[3]})
               ELSE /\ gen.result[1].grid[pos].number = None
                    /\ gen.result[1].grid[pos].candidates = None


\* C12: the guesses made within one attempt never exceed the cap, and an attempt
\* is rejected for excessive guessing (lines 103-105) only when the guesses made
\* in that same attempt have reached the cap.
C12_GuessCapPerAttempt ==
    /\ Len(gen.attempt_guesses) <= guess_limit(gen.rows, gen.cols)
    /\ (/\ gen.gpc = "solving" /\ pc = "done"
        /\ status = UNDERCONSTRAINED
        /\ gen.extra_fills >= guess_limit(gen.rows, gen.cols)) =>
           Len(gen.attempt_guesses) >= guess_limit(gen.rows, gen.cols)

\* C15: generate with max_attempts = n and fresh stats never counts more than n
\* attempts, and when it ends without a puzzle it has returned (None, stats)
\* with the outcome counters summing to n.
C15_AttemptBudget ==
    /\ total_attempts(gen.stats) <= gen.max_attempts
    /\ (gen.gpc \in {"returned", "raised"} /\ gen.result = None) =>
           /\ gen.gpc = "returned"
           /\ total_attempts(gen.stats) = gen.max_attempts


\* the tasks whose single attempt ended with that counter and whose result the
\* parent popped from pending_results after it was ready
CollectedAttempts(counter) ==
    {t \in DOMAIN gen.tasks : gen.tasks[t].collected /\ gen.tasks[t].outcome = counter}

\* C13: generate_many returns at most count puzzles; each outcome counter of the
\* aggregated stats is the sum of that counter over the attempts of the worker
\* tasks the parent collected, and puzzles_rejected_timeout is the number of
\* tasks it gave up on as timed out.
C13_AggregatedStats ==
    gen.gpc = "returned" =>
        /\ Len(gen.puzzles) <= gen.count
        /\ \A counter \in AttemptOutcomes :
              gen.total_stats[counter] = Cardinality(CollectedAttempts(counter))
        /\ gen.total_stats.puzzles_rejected_timeout =
              Cardinality({t \in DOMAIN gen.tasks : gen.tasks[t].timed_out})

\* C14: once the parent has counted a task as a timeout rejection, no worker
\* process is executing that task any more.
C14_TimedOutWorkerTerminated ==
    \A t \in DOMAIN gen.tasks : gen.tasks[t].timed_out => gen.tasks[t].state # "running"


\* the variables an existential quantifier of the formula binds outside any
\* negation or universal quantifier: the names a witness of it can carry
RECURSIVE WitnessVariables(_)
WitnessVariables(phi) ==
    CASE phi.f \in {"And", "Or"} -> UNION {WitnessVariables(phi.formulas[k]) : k \in DOMAIN phi.formulas}
      [] phi.f = "Exists" -> Names(phi.variables) \cup WitnessVariables(phi.formula)
      [] OTHER -> {}

\* the witness w without the variables outside K
Restricted(w, K) == [n \in (DOMAIN w) \cap K |-> w[n]]

\* C16: on every puzzle, the witnesses of the optimised condition (after
\* optimize, and after optimize_rule) are the witnesses of the original
\* condition restricted to the variables the optimised condition still binds.
C16_OptimizedWitnesses ==
    gen.gpc \in {"optimized", "rule_optimized"} =>
        Universe_check_all(gen.rule.condition, gen.puzzle)
            = {Restricted(w, WitnessVariables(gen.rule.condition)) :
                  w \in Universe_check_all(gen.original.condition, gen.puzzle)}

\* the part of C16 about optimize (miniscoping alone)
C16_MinscopeWitnesses ==
    gen.gpc = "optimized" =>
        Universe_check_all(gen.rule.condition, gen.puzzle)
            = {Restricted(w, WitnessVariables(gen.rule.condition)) :
                  w \in Universe_check_all(gen.original.condition, gen.puzzle)}


\* the variables the conclusions of the rule use
ConclusionVariables(rule) ==
    UNION {get_free_variables(rule.conclusions[k].position)
             \cup UNION {get_free_variables(rule.conclusions[k].values[j]) :
                            j \in DOMAIN rule.conclusions[k].values} :
           k \in DOMAIN rule.conclusions}

\* C17: a rule that check_rule accepts uses in its conclusions only variables
\* bound by the existential prefix of its condition; a rule whose conclusions
\* use a variable bound only under a universal quantifier or only under a
\* negation is rejected with a TypeError.
C17_ConclusionScopeIsExistentialPrefix ==
    gen.gpc = "checked" =>
        ConclusionVariables(gen.original) \subseteq WitnessVariables(gen.original.condition)


\* C18: a puzzle written with to_string and read back with from_string is the
\* puzzle that was written, and a cell written with str and read back with
\* Cell.from_string is the cell that was written.
C18_TextRoundTrip ==
    gen.gpc \in {"puzzle_read", "cell_read"} => gen.result = gen.value

\* the round trip of the puzzles and cells whose values are single digits
C18_SingleDigitRoundTrip ==
    /\ gen.gpc = "puzzle_read"
       /\ (\A pos \in DOMAIN gen.value.grid :
              gen.value.grid[pos].number # None => gen.value.grid[pos].number[1] <= 9)
       => gen.result = gen.value
    /\ gen.gpc = "cell_read" /\ (gen.value.number # None => gen.value.number[1] <= 9)
       => gen.result = gen.value


\* the cell the conclusion of the call is about, or OOB
TargetPosition ==
    eval_term(gen.conclusion.position, gen.witness, gen.before, compute_all_paths(gen.before))

\* the evaluated value terms of the conclusion of the call
TargetValues ==
    [k \in DOMAIN gen.conclusion.values |->
        eval_term(gen.conclusion.values[k], gen.witness, gen.before,
                  compute_all_paths(gen.before))]

\* the effective current set of a cell: {value} if committed, else its candidates
CurrentSet(cell) == IF cell.number # None THEN {cell.number[1]} ELSE cell.candidates[1]

\* the new set: Set intersects with {value}, Exclude removes the elements
\* matching "c op value", Only intersects with the evaluated values
NewSet(conclusion, current, vals) ==
    CASE conclusion.c = "SetVal" -> {c \in current : vals[1] # nil /\ c = vals[1][1]}
      [] conclusion.c = "ExcludeVal" ->
            {c \in current : ~(vals[1] # nil /\ Compare(c, conclusion.operator, vals[1][1]))}
      [] conclusion.c = "OnlyVal" ->
            {c \in current : \E k \in DOMAIN vals : vals[k] # nil /\ c = vals[k][1]}

\* the before-cell with the new set written back, committed if it is a singleton
WrittenBack(cell, new) ==
    Cell(cell.direction,
         IF Cardinality(new) = 1 THEN Some(CHOOSE v \in new : TRUE) ELSE cell.number,
         Some(new))

\* the classification of the call on a cell of the grid
ClassifiedAt(pos, current, new) ==
    IF new = {}
    THEN gen.result = CONTRADICTION /\ gen.loc = Some(pos)
    ELSE IF new = current
    THEN gen.result = NO_PROGRESS /\ gen.puzzle = gen.before
    ELSE /\ gen.result = PROGRESS
         /\ new \subseteq current /\ new # current
         /\ gen.puzzle = [gen.before EXCEPT !.grid[pos] = WrittenBack(@, new)]

C20_UndoRestores ==
    /\ gen.gpc = "applied_with_undo" /\ gen.result = "undo" =>
          /\ gen.puzzle # gen.before
          /\ \A pos \in DOMAIN gen.before.grid :
                pos # TargetPosition => gen.puzzle.grid[pos] = gen.before.grid[pos]
    /\ gen.gpc = "applied_with_undo" /\ gen.result # "undo" =>
          /\ gen.result \in {CONTRADICTION, "None"}
          /\ gen.puzzle = gen.before
    /\ gen.gpc = "undone" => gen.puzzle = gen.before

\* a handle was invoked after an application that committed a pending cell
C20_Witness ==
    /\ gen.gpc = "undone"
    /\ gen.before.grid[TargetPosition].number = None
    /\ Cardinality(gen.handle.puzzle.grid[TargetPosition].candidates[1]) = 1
    /\ gen.handle.puzzle.grid[TargetPosition].number # None


\* the cap on the rotations of one attempt: max(ceil(rows * cols * 0.10), 3)
RotationCap(rows, cols) ==
    IF 3 * 10 >= rows * cols THEN 3
    ELSE CHOOSE n \in 0..(rows * cols) : 10 * n >= rows * cols /\ 10 * (n - 1) < rows * cols

\* the direction after d in the allowed set, in cyclic order
NextAllowed(d, allow_diagonals) ==
    IF allow_diagonals
    THEN CASE d = NORTH -> EAST [] d = EAST -> SOUTH [] d = SOUTH -> WEST [] d = WEST -> NORTH_EAST
           [] d = NORTH_EAST -> SOUTH_EAST [] d = SOUTH_EAST -> SOUTH_WEST
           [] d = SOUTH_WEST -> NORTH_WEST [] d = NORTH_WEST -> NORTH
    ELSE CASE d = NORTH -> EAST [] d = EAST -> SOUTH [] d = SOUTH -> WEST [] d = WEST -> NORTH

\* the step rotates the arrow at loc and starts again from the arrows-only base
RotationStep(loc) ==
    /\ gen'.gpc = "solving" /\ pc' = "entry"
    /\ gen'.modifications = gen.modifications + 1
    /\ \A pos \in DOMAIN gen.base_puzzle.grid :
          /\ gen'.base_puzzle.grid[pos].direction =
                IF pos = loc
                THEN NextAllowed(gen.base_puzzle.grid[pos].direction, gen.allow_diagonals)
                ELSE gen.base_puzzle.grid[pos].direction
          /\ gen'.base_puzzle.grid[pos].number = None
          /\ gen'.base_puzzle.grid[pos].candidates = None
    /\ gen'.current_puzzle = gen'.base_puzzle
    /\ objs'["input"] = gen'.base_puzzle
    /\ gen'.guesses = <<>> /\ gen'.extra_fills = 0
    /\ reuse_candidates' = FALSE

\* the step rejects the attempt as no-solution
NoSolutionRejection ==
    /\ gen'.gpc = "attempt"
    /\ gen'.stats.puzzles_rejected_no_solution = gen.stats.puzzles_rejected_no_solution + 1

\* C24: when a solve call of an attempt ends with NO_SOLUTION and a
\* contradiction_location and fewer than max(ceil(rows*cols*0.10), 3) rotations
\* were made in the attempt, the generator turns only the arrow of that cell, to
\* the next direction of the allowed set, resets the working puzzle to the
\* arrows-only base, empties guesses and guess counter and solves again from
\* fresh candidates; an attempt makes at most that many rotations and is then
\* rejected as no-solution.
C24_RotationOnContradiction ==
    [][/\ gen.gpc = "solving" /\ pc = "done" /\ status = NO_SOLUTION =>
           IF contradiction_location # None
               /\ gen.modifications < RotationCap(gen.rows, gen.cols)
           THEN RotationStep(contradiction_location[1])
           ELSE NoSolutionRejection
       /\ gen.gpc \in {"solving", "final"} =>
             gen'.modifications <= RotationCap(gen.rows, gen.cols)]_vars

\* a solve call is entered after a rotation
C24_Witness ==
    gen.gpc = "solving" /\ pc = "entry" /\ gen.modifications > 0


\* the list is the ray of the cell pos of the puzzle: its k-th element is k
\* steps from pos in the cell's direction, every element is in the grid, and
\* the step after the last one leaves the grid
IsRay(list, pz, pos) ==
    /\ \A k \in 1..Len(list) :
          /\ list[k] = <<pos[1] + k * delta(pz.grid[pos].direction)[1],
                         pos[2] + k * delta(pz.grid[pos].direction)[2]>>
          /\ list[k] \in Positions(pz.rows, pz.cols)
    /\ <<pos[1] + (Len(list) + 1) * delta(pz.grid[pos].direction)[1],
         pos[2] + (Len(list) + 1) * delta(pz.grid[pos].direction)[2]>>
           \notin Positions(pz.rows, pz.cols)

\* C25: at every solve call the generator makes, the path cache passed to the
\* solver lists for every cell of the puzzle passed exactly the cells on the
\* ray of that cell's direction, in order, up to the grid edge.
C25_PathCacheMatchesArrows ==
    gen.gpc \in {"solving", "final"} /\ pc = "entry" =>
        /\ path_cache_arg # None
        /\ DOMAIN path_cache_arg[1] = Positions(objs["input"].rows, objs["input"].cols)
        /\ \A pos \in Positions(objs["input"].rows, objs["input"].cols) :
              IsRay(path_cache_arg[1][pos], objs["input"], pos)

\* the final solve call of an attempt that rotated an arrow and made a guess
C25_Witness ==
    /\ gen.gpc = "final" /\ pc = "entry"
    /\ gen.modifications > 0
    /\ gen.attempt_guesses # <<>>


\* the cells of the puzzle whose arrow points immediately out of the grid
PointingOut(pz) ==
    {pos \in Positions(pz.rows, pz.cols) :
        <<pos[1] + delta(pz.grid[pos].direction)[1],
          pos[2] + delta(pz.grid[pos].direction)[2]>> \notin Positions(pz.rows, pz.cols)}

\* C26: after outward-arrow damping, at the first solve call of an attempt, the
\* number of cells whose arrow points immediately out of the grid is at most
\* floor(rows * cols * 0.10).
C26_OutwardArrowsDamped ==
    gen.gpc = "solving" /\ pc = "entry" /\ gen.modifications = 0 /\ ~reuse_candidates =>
        10 * Cardinality(PointingOut(objs["input"])) <= gen.rows * gen.cols

\* C27: the solver is never invoked in an attempt in which the pre_check of some
\* constraint is false on the arrows-only puzzle left by the damping: at the first
\* solve call of an attempt every constraint's pre_check holds of the puzzle
\* that is passed
C27_PreCheckBeforeFirstSolve ==
    gen.gpc = "solving" /\ pc = "entry" /\ gen.modifications = 0 /\ ~reuse_candidates
        => \A k \in 1..Len(gen.constraints) : pre_check(gen.constraints[k], objs["input"])

\* ------------------------------------------------ termination of solve
\* solve runs its loop to the end without waiting for anything: a step that
\* can be taken is taken. This is weak fairness of Next, written out with the
\* states where no step of Next is possible, those of a call that has returned
FairSpec == Spec /\ ([]<>(pc = "done") \/ []<><<Next>>_vars)

RECURSIVE CandidateTotalOver(_, _)
CandidateTotalOver(pz, cells) ==
    IF cells = {} THEN 0
    ELSE Cardinality(pz.grid[CHOOSE q \in cells : TRUE].candidates[1])
         + CandidateTotalOver(pz, cells \ {CHOOSE q \in cells : TRUE})

\* the sum of the sizes of the candidate sets of the cells
CandidateTotal(pz) == CandidateTotalOver(pz, Positions(pz.rows, pz.cols))

\* the sum over the cells of (initial candidate count - 1)
StepBound ==
    CandidateTotal(_initialize_candidates(objs["input"])) - objs["input"].rows * objs["input"].cols

\* C28: solve terminates. Each committed step strictly decreases the sum of the
\* candidate-set sizes, so the number of steps never exceeds the sum over the
\* cells of (initial candidate count - 1); a pass that commits a step is followed
\* by a pass from the first rule, and the loop ends with a pass in which no rule
\* can act
C28_SolveTerminates ==
    /\ <>(pc = "done")
    /\ [][ /\ steps' # steps =>
                /\ Len(steps') = Len(steps) + 1
                /\ CandidateTotal(puzzle') < CandidateTotal(puzzle)
                /\ rule_index' = 1
           /\ pc = "loop" /\ pc' = "done" /\ status' # NO_SOLUTION =>
                /\ rule_index > Len(rules)
                /\ \A k \in 1..Len(rules) : ~CanAct(rules[k], puzzle, rules, path_cache)
                /\ steps' = steps ]_vars
    /\ [](pc \in {"loop", "done"} => Len(steps) <= StepBound)

\* a solve call ended after as many steps as the bound allows, more than one
C28_Witness == pc = "done" /\ Len(steps) = StepBound /\ Len(steps) >= 2

\* the candidates solve starts from at pos
InitialCandidates(pos) ==
    EffectiveCandidates(_initialize_candidates(objs["input"]).grid[pos])

\* C29: while solve runs its loop the effective candidate set of every cell only
\* shrinks, and stays within the set the call started from; the value of a
\* committed cell never changes to a different value, and it is removed only by
\* the contradiction that ends the call with NO_SOLUTION
C29_CandidatesOnlyShrink ==
    [][ pc = "loop" =>
          \A pos \in Positions(puzzle.rows, puzzle.cols) :
              /\ EffectiveCandidates(puzzle'.grid[pos]) \subseteq EffectiveCandidates(puzzle.grid[pos])
              /\ EffectiveCandidates(puzzle'.grid[pos]) \subseteq InitialCandidates(pos)
              /\ puzzle.grid[pos].number # None =>
                    \/ puzzle'.grid[pos].number = puzzle.grid[pos].number
                    \/ /\ puzzle'.grid[pos].number = None
                       /\ pc' = "done" /\ status' = NO_SOLUTION
                       /\ contradiction_location' = Some(pos)
                       /\ steps' = steps ]_vars

\* after at least one committed step, the contradiction that ends the call has
\* removed the value of a cell that was given
C29_Witness ==
    /\ pc = "done" /\ status = NO_SOLUTION /\ Len(steps) >= 1
    /\ \E pos \in Positions(puzzle.rows, puzzle.cols) :
          /\ objs["input"].grid[pos].number # None
          /\ puzzle.grid[pos].number = None

\* ------------------------------------- Solver._apply_backtrack_rule, step by step
\* One invocation of _apply_backtrack_rule, with the search of
\* _find_contradiction_optimized unfolded into its steps. gen holds the locals:
\*   original    the puzzle with original_grid as its grid
\*   working     the puzzle with working_grid as its grid
\*   on_working  puzzle.grid is working_grid (else original_grid)
\*   tried       the hypotheses (pos, val) whose search is over, with its outcome
\*   hyp         the hypothesis under search
\*   stack       the active calls of _find_contradiction_optimized that are in
\*               their rule loop, outermost first
\*   ret         the value the call that just returned gave: None or Some(trace)
backtrack_shallow == BacktrackRule("backtrack_shallow", 2, 1, 0, 1)

\* the rule lists of the solver whose backtrack rule is invoked
BacktrackRuleLists ==
    { <<suicide_if_one, backtrack_check, cap_ahead>>,
      <<backtrack_check, exclude_zero>>,
      <<edge_zero, backtrack_shallow>>,
      <<backtrack_check, backtrack_deep, edge_zero, all_seen>> }

\* the cells of a puzzle in the loop of solve: a pending cell with candidates
\* left, a committed cell with the candidates {number}
BacktrackCells(limit) ==
    {Cell(d, None, Some(cs)) : d \in {EAST, WEST}, cs \in (SUBSET (0..(limit - 1))) \ {{}}}
    \cup {Cell(d, Some(v), Some({v})) : d \in {EAST, WEST}, v \in 0..(limit - 1)}

BacktrackPuzzles ==
    UNION {{[rows |-> 1, cols |-> n, grid |-> g] :
               g \in [Positions(1, n) -> BacktrackCells(n)]} : n \in 1..MaxBacktrackCols}

NoBacktrackResult ==
    [status |-> "", steps |-> <<>>, max_complexity_used |-> 0, contradiction_location |-> None]

\* lines 257-270: the locals before the first hypothesis
BacktrackLocals(pz, rs, rule) ==
    [gpc |-> "map", rule |-> rule, hrules |-> hypothesis_rules(rs, rule),
     before |-> pz, original |-> pz, working |-> pz, on_working |-> FALSE,
     cache |-> compute_all_paths(pz), tried |-> <<>>, hyp |-> <<>>, stack |-> <<>>,
     call_depth |-> 0, ret |-> None, result |-> NoBacktrackResult]

\* solve, in its loop on the puzzle pz, calls _apply_backtrack_rule for a
\* backtrack rule of the solver; the solve call itself is not followed
BacktrackInit ==
    /\ \E pz \in BacktrackPuzzles, rs \in BacktrackRuleLists :
          \E i \in 1..Len(rs) :
              /\ rs[i].kind = "BacktrackRule"
              /\ gen = BacktrackLocals(pz, Solver(rs), rs[i])
              /\ rules = Solver(rs)
    /\ objs = CallObjects(NoPuzzle)
    /\ puzzle_ref = "input"
    /\ initial_puzzle_ref = "input"
    /\ path_cache_arg = None
    /\ path_cache = NoPaths
    /\ reuse_candidates = FALSE
    /\ steps = <<>>
    /\ max_complexity_used = 0
    /\ rule_application_count = NoCounter
    /\ rule_index = 1
    /\ status = UNDERCONSTRAINED
    /\ contradiction_location = None
    /\ pc = "idle"

\* the puzzle as reached through puzzle.grid
CurrentPuzzle(g) == IF g.on_working THEN g.working ELSE g.original

\* a write to a cell of puzzle.grid
SetCurrent(g, pz) == IF g.on_working THEN [g EXCEPT !.working = pz] ELSE [g EXCEPT !.original = pz]

\* a finally clause that leaves puzzle.grid as it is
NotRestored(g) == g

\* lines 296-297, finally: puzzle.grid = original_grid
Restored(g) == [g EXCEPT !.on_working = FALSE]

\* the values of the hypotheses tried at pos
TriedValues(g, pos) == {g.tried[n].val : n \in {m \in 1..Len(g.tried) : g.tried[m].pos = pos}}

\* the cells of candidates_map with a value still to try
OpenCells(g) ==
    {pos \in MapCells(g.original) : g.original.grid[pos].candidates[1] \ TriedValues(g, pos) # {}}

\* the hypotheses the two for loops can come to next: the first cell of the
\* sorted candidates_map with a value left, and any value left of it
NextHypotheses(g) ==
    {h \in UNION {{<<pos, val>> : val \in g.original.grid[pos].candidates[1] \ TriedValues(g, pos)} :
                     pos \in OpenCells(g)} :
        \A q \in OpenCells(g) \ {h[1]} : MapBefore(g.original, h[1], q)}

\* a call of _find_contradiction_optimized in its rule loop: depth, the grid on
\* entry, the rule the loop is at, the witnesses check_all has yielded for it,
\* the witness and conclusion at hand, and the undo_op not yet called
Frame(depth, entry) ==
    [depth |-> depth, entry |-> entry, k |-> 1, seen |-> {}, w |-> None, ci |-> 1,
     undo |-> NoUndo("None", entry, None), pending |-> FALSE]

Top(g) == g.stack[Len(g.stack)]

SetTop(g, f) == [g EXCEPT !.stack[Len(g.stack)] = f]

Pop(g) == [g EXCEPT !.stack = SubSeq(g.stack, 1, Len(g.stack) - 1)]

\* lines 272-291: deep copy of original_grid, the tentative commit, the call
Hypothesized(g, h) ==
    [g EXCEPT !.gpc = "call", !.hyp = h, !.on_working = TRUE,
              !.working = Hypothesis(g.original, h[1], h[2]),
              !.call_depth = g.rule.rule_depth, !.ret = None]

BacktrackHypothesize ==
    /\ gen.gpc = "map"
    /\ \E h \in NextHypotheses(gen) : gen' = Hypothesized(gen, h)
    /\ UNCHANGED solver_vars

\* lines 332-338: candidates_map is used up
BacktrackExhausted ==
    /\ gen.gpc = "map"
    /\ NextHypotheses(gen) = {}
    /\ gen' = [gen EXCEPT !.gpc = "returned",
                          !.result = [status |-> UNDERCONSTRAINED, steps |-> <<>>,
                                      max_complexity_used |-> 0,
                                      contradiction_location |-> None]]
    /\ UNCHANGED solver_vars

\* lines 349-352: the state on entry is inconsistent
SearchInconsistent ==
    /\ gen.gpc = "call"
    /\ ~_check_consistency(CurrentPuzzle(gen), gen.cache)
    /\ gen' = [gen EXCEPT !.gpc = "ret", !.ret = Some(<<<<"Inconsistent state">>>>)]
    /\ UNCHANGED solver_vars

\* lines 354-355: depth <= 0
SearchDepthZero ==
    /\ gen.gpc = "call"
    /\ _check_consistency(CurrentPuzzle(gen), gen.cache)
    /\ gen.call_depth <= 0
    /\ gen' = [gen EXCEPT !.gpc = "ret", !.ret = None]
    /\ UNCHANGED solver_vars

\* line 358: the rule loop is entered
SearchEnter ==
    /\ gen.gpc = "call"
    /\ _check_consistency(CurrentPuzzle(gen), gen.cache)
    /\ gen.call_depth > 0
    /\ gen' = [gen EXCEPT !.gpc = "loop",
                          !.stack = Append(gen.stack, Frame(gen.call_depth, CurrentPuzzle(gen)))]
    /\ UNCHANGED solver_vars

\* the witnesses check_all can yield next for the rule of frame f: the generator
\* evaluates the condition on the grid as it is when it is resumed
NextWitnesses(g, f) ==
    IF g.hrules[f.k].kind # "FORule" THEN {}
    ELSE check_all(g.hrules[f.k].condition, CurrentPuzzle(g), g.cache) \ f.seen

\* lines 358-360, 411: the rule is no FORule, or its witnesses are used up
SearchNextRule ==
    /\ gen.gpc = "loop"
    /\ Top(gen).w = None
    /\ Top(gen).k <= Len(gen.hrules)
    /\ NextWitnesses(gen, Top(gen)) = {}
    /\ gen' = SetTop(gen, [Top(gen) EXCEPT !.k = @ + 1, !.seen = {}])
    /\ UNCHANGED solver_vars

\* line 411: the rules are used up, the call returns None
SearchReturnNone ==
    /\ gen.gpc = "loop"
    /\ Top(gen).w = None
    /\ Top(gen).k > Len(gen.hrules)
    /\ gen' = [Pop(gen) EXCEPT !.gpc = "ret", !.ret = None]
    /\ UNCHANGED solver_vars

\* line 367: check_all yields the next witness
SearchNextWitness ==
    /\ gen.gpc = "loop"
    /\ Top(gen).w = None
    /\ Top(gen).k <= Len(gen.hrules)
    /\ \E w \in NextWitnesses(gen, Top(gen)) :
          gen' = SetTop(gen, [Top(gen) EXCEPT !.w = Some(w), !.ci = 1, !.seen = @ \cup {w}])
    /\ UNCHANGED solver_vars

\* line 368: the conclusions of the witness are used up
SearchWitnessDone ==
    /\ gen.gpc = "loop"
    /\ Top(gen).w # None
    /\ Top(gen).ci > Len(gen.hrules[Top(gen).k].conclusions)
    /\ gen' = SetTop(gen, [Top(gen) EXCEPT !.w = None])
    /\ UNCHANGED solver_vars

\* line 370: undo_op = self._apply_conclusion_with_undo(puzzle, conclusion, witness, universe)
HypotheticalApplication(g, f) ==
    apply_conclusion_with_undo(CurrentPuzzle(g), g.hrules[f.k].conclusions[f.ci], f.w[1], g.cache)

AtConclusion(g) ==
    /\ g.gpc = "loop"
    /\ Top(g).w # None
    /\ Top(g).ci <= Len(g.hrules[Top(g).k].conclusions)

\* line 375: step_desc
step_desc(g, f) == <<"Applied", g.hrules[f.k].name, f.w[1], f.ci>>

\* lines 372-373: undo_op is None, no progress
SearchNoProgress ==
    /\ AtConclusion(gen)
    /\ HypotheticalApplication(gen, Top(gen)).kind = "None"
    /\ gen' = SetTop(gen, [Top(gen) EXCEPT !.ci = @ + 1])
    /\ UNCHANGED solver_vars

\* lines 377-378: undo_op == "CONTRADICTION"
SearchContradiction ==
    /\ AtConclusion(gen)
    /\ HypotheticalApplication(gen, Top(gen)).kind = CONTRADICTION
    /\ gen' = [Pop(gen) EXCEPT !.gpc = "ret",
                               !.ret = Some(<<step_desc(gen, Top(gen)), <<"CONTRADICTION">>>>)]
    /\ UNCHANGED solver_vars

\* lines 384-400: the application made progress. At depth 1 the consistency of
\* the new state gives the trace, deeper the recursive call gives it
Progressed(g, f, u) ==
    IF f.depth = 1
    THEN [SetTop(SetCurrent(g, u.puzzle), [f EXCEPT !.undo = u, !.pending = TRUE])
             EXCEPT !.gpc = "ret",
                    !.ret = IF _check_consistency(u.puzzle, g.cache) THEN None
                            ELSE Some(<<<<"Inconsistent state">>>>)]
    ELSE [SetTop(SetCurrent(g, u.puzzle), [f EXCEPT !.undo = u, !.pending = TRUE])
             EXCEPT !.gpc = "call", !.call_depth = f.depth - 1]

SearchProgress ==
    /\ AtConclusion(gen)
    /\ HypotheticalApplication(gen, Top(gen)).kind = "undo"
    /\ gen' = Progressed(gen, Top(gen), HypotheticalApplication(gen, Top(gen)))
    /\ UNCHANGED solver_vars

\* the grid after a step that calls undo_op only when no trace came back
UndoneUnlessTrace(pz, undo_op, trace) ==
    IF trace # None THEN pz ELSE undo(pz, undo_op)

\* lines 402-409: undo_op() is called in both branches
Undone(pz, undo_op, trace) == undo(pz, undo_op)

\* lines 402-405: a trace came back: undo, and return it behind step_desc
SearchUndoAndReturn ==
    /\ gen.gpc = "ret" /\ gen.stack # <<>>
    /\ gen.ret # None
    /\ gen' = [Pop(SetCurrent(gen, Undone(CurrentPuzzle(gen), Top(gen).undo, gen.ret)))
                  EXCEPT !.ret = Some(<<step_desc(gen, Top(gen))>> \o gen.ret[1])]
    /\ UNCHANGED solver_vars

\* lines 407-409: no trace: undo, and go on with the next conclusion
SearchUndoAndContinue ==
    /\ gen.gpc = "ret" /\ gen.stack # <<>>
    /\ gen.ret = None
    /\ gen' = [SetTop(SetCurrent(gen, Undone(CurrentPuzzle(gen), Top(gen).undo, gen.ret)),
                      [Top(gen) EXCEPT !.pending = FALSE, !.ci = @ + 1])
                  EXCEPT !.gpc = "loop"]
    /\ UNCHANGED solver_vars

\* an exception (KeyboardInterrupt, MemoryError) leaves the search at any point;
\* the finally clause of line 296 runs and the exception leaves the invocation
SearchRaises ==
    /\ gen.gpc \in {"call", "loop", "ret"}
    /\ gen' = [Restored(gen) EXCEPT !.gpc = "raised", !.stack = <<>>, !.ret = None]
    /\ UNCHANGED solver_vars

\* the hypothesis whose search is over joins the tried ones
SearchOver(g) ==
    [Restored(g) EXCEPT !.tried = Append(g.tried, [pos |-> g.hyp[1], val |-> g.hyp[2],
                                                   found |-> g.ret # None])]

\* lines 301-303: the Exclude of the real conclusion, applied through puzzle.grid
RealExclude(g) ==
    apply_conclusion(CurrentPuzzle(g), BacktrackConclusion(g.hyp[2]), g.hyp[1], g.cache)

\* lines 296-299: the search returned no trace: the next hypothesis
BacktrackNoTrace ==
    /\ gen.gpc = "ret" /\ gen.stack = <<>>
    /\ gen.ret = None \/ RealExclude(SearchOver(gen)).result = NO_PROGRESS
    /\ gen' = [SearchOver(gen) EXCEPT !.gpc = "map"]
    /\ UNCHANGED solver_vars

\* lines 315-330: the Exclude made progress: one step is returned
BacktrackStep(g, res) ==
    [SetCurrent(g, res.puzzle) EXCEPT
        !.gpc = "returned",
        !.result = [status |-> UNDERCONSTRAINED,
                    steps |-> <<SolverStep(g.rule, g.hyp[1], <<BacktrackConclusion(g.hyp[2])>>,
                                           res.puzzle,
                                           <<<<"Assuming", g.hyp[1], g.hyp[2]>>>> \o g.ret[1])>>,
                    max_complexity_used |-> g.rule.complexity,
                    contradiction_location |-> None]]

BacktrackExcluded ==
    /\ gen.gpc = "ret" /\ gen.stack = <<>>
    /\ gen.ret # None
    /\ RealExclude(SearchOver(gen)).result = PROGRESS
    /\ gen' = BacktrackStep(SearchOver(gen), RealExclude(SearchOver(gen)))
    /\ UNCHANGED solver_vars

\* lines 305-313: the Exclude emptied the cell: NO_SOLUTION, no step
BacktrackNoSolution(g, res) ==
    [SetCurrent(g, res.puzzle) EXCEPT
        !.gpc = "returned",
        !.result = [status |-> NO_SOLUTION, steps |-> <<>>,
                    max_complexity_used |-> g.rule.complexity,
                    contradiction_location |-> res.loc]]

BacktrackEmptied ==
    /\ gen.gpc = "ret" /\ gen.stack = <<>>
    /\ gen.ret # None
    /\ RealExclude(SearchOver(gen)).result = CONTRADICTION
    /\ gen' = BacktrackNoSolution(SearchOver(gen), RealExclude(SearchOver(gen)))
    /\ UNCHANGED solver_vars

BacktrackNext ==
    \/ BacktrackHypothesize
    \/ BacktrackExhausted
    \/ SearchInconsistent
    \/ SearchDepthZero
    \/ SearchEnter
    \/ SearchNextRule
    \/ SearchReturnNone
    \/ SearchNextWitness
    \/ SearchWitnessDone
    \/ SearchNoProgress
    \/ SearchContradiction
    \/ SearchProgress
    \/ SearchUndoAndReturn
    \/ SearchUndoAndContinue
    \/ SearchRaises
    \/ BacktrackNoTrace
    \/ BacktrackExcluded
    \/ BacktrackEmptied

BacktrackSpec == BacktrackInit /\ [][BacktrackNext]_vars

\* ---------------------------------------------- properties of the backtrack step
CandidatesAt(pz, pos) == pz.grid[pos].candidates[1]

\* the real puzzle is as it was when the invocation began
RealUntouched == gen.original = gen.before

\* the real puzzle differs from the one the invocation began with in the cell
\* of the last hypothesis only, which lost exactly the value of that hypothesis
OneCandidateRemoved ==
    /\ gen.hyp # <<>>
    /\ gen.hyp[2] \in CandidatesAt(gen.before, gen.hyp[1])
    /\ CandidatesAt(gen.original, gen.hyp[1]) = CandidatesAt(gen.before, gen.hyp[1]) \ {gen.hyp[2]}
    /\ gen.original.grid[gen.hyp[1]].direction = gen.before.grid[gen.hyp[1]].direction
    /\ \A q \in Positions(gen.before.rows, gen.before.cols) \ {gen.hyp[1]} :
          gen.original.grid[q] = gen.before.grid[q]

\* C21: one invocation of _apply_backtrack_rule leaves the real puzzle as it was
\* except for at most one cell, from which the Exclude of the refuted value
\* removed exactly that one candidate. The tentative commits and the hypothetical
\* applications live in the working grid, which is discarded when puzzle.grid is
\* set back to the original grid, also when the search raises; when no
\* hypothesis leads to a contradiction the puzzle is identical
C21_BacktrackFrame ==
    /\ gen.gpc \in {"call", "loop", "ret"} => gen.on_working /\ RealUntouched
    /\ gen.gpc \in {"map", "raised", "returned"} => ~gen.on_working
    /\ gen.gpc \in {"map", "raised"} => RealUntouched
    /\ gen.gpc = "returned" =>
          IF gen.result.steps = <<>> /\ gen.result.status = UNDERCONSTRAINED
          THEN RealUntouched
          ELSE OneCandidateRemoved

\* a value was excluded after the searches of two hypotheses that found no
\* contradiction were discarded
C21_Witness ==
    /\ gen.gpc = "returned" /\ gen.result.steps # <<>>
    /\ Len(gen.tried) >= 3
    /\ gen.original # gen.before

\* the hypothesis whose search ended last
LastTried == gen.tried[Len(gen.tried)]

\* C22: the hypotheses are tried on pending cells with candidates, in ascending
\* order of the size of the candidate set; the search of every hypothesis but
\* the last one found no contradiction, and the invocation returns as soon as
\* one does: with at most one step, whose one applied conclusion is
\* Exclude(cell, =, value) of that hypothesis and whose contradiction_trace is
\* not empty. A value is excluded only when its hypothesis is refuted
C22_FirstContradictionExcluded ==
    /\ \A n \in 1..Len(gen.tried) :
          /\ gen.tried[n].pos \in MapCells(gen.before)
          /\ gen.tried[n].val \in CandidatesAt(gen.before, gen.tried[n].pos)
          /\ \A m \in 1..(n - 1) :
                /\ Cardinality(CandidatesAt(gen.before, gen.tried[m].pos))
                      <= Cardinality(CandidatesAt(gen.before, gen.tried[n].pos))
                /\ ~gen.tried[m].found
                /\ <<gen.tried[m].pos, gen.tried[m].val>> # <<gen.tried[n].pos, gen.tried[n].val>>
    /\ gen.gpc = "map" => \A n \in 1..Len(gen.tried) : ~gen.tried[n].found
    /\ gen.gpc = "returned" =>
          /\ Len(gen.result.steps) <= 1
          /\ \A n \in 1..Len(gen.tried) :
                gen.tried[n].found =
                    Refuted(gen.before, rules, gen.rule, gen.cache,
                            gen.tried[n].pos, gen.tried[n].val)
          /\ gen.original # gen.before => gen.tried # <<>> /\ LastTried.found
          /\ gen.result.steps # <<>> =>
                /\ LastTried.found
                /\ gen.result.steps[1].conclusions_applied =
                      <<ExcludeVal(Variable("p"), "=", Constant(Some(LastTried.val)))>>
                /\ gen.result.steps[1].witness = LastTried.pos
                /\ Len(gen.result.steps[1].contradiction_trace) >= 2
          /\ gen.result.steps = <<>> /\ gen.result.status = UNDERCONSTRAINED =>
                /\ \A n \in 1..Len(gen.tried) : ~gen.tried[n].found
                /\ \A pos \in MapCells(gen.before) :
                      \A val \in CandidatesAt(gen.before, pos) :
                          \E n \in 1..Len(gen.tried) :
                              gen.tried[n].pos = pos /\ gen.tried[n].val = val

\* the step excludes a value of a cell with more candidates than the cell whose
\* hypotheses were tried, and not refuted, before
C22_Witness ==
    /\ gen.gpc = "returned" /\ gen.result.steps # <<>>
    /\ Len(gen.tried) >= 3
    /\ Cardinality(CandidatesAt(gen.before, gen.tried[1].pos))
          < Cardinality(CandidatesAt(gen.before, LastTried.pos))

\* the hypothetical applications in effect: made and not yet undone
InEffect == Cardinality({n \in 1..Len(gen.stack) : gen.stack[n].pending})

\* C23: at any moment of the search at most rule_depth hypothetical applications
\* are in effect; with rule_depth = 0 the search is the consistency check alone;
\* the rules that are applied hypothetically are FO rules of complexity at most
\* max_rule_complexity, never backtrack rules
C23_DepthAndDrivers ==
    /\ InEffect <= gen.rule.rule_depth
    /\ Len(gen.stack) <= gen.rule.rule_depth
    /\ \A n \in 1..Len(gen.stack) : gen.stack[n].depth = gen.rule.rule_depth - (n - 1)
    /\ gen.rule.rule_depth = 0 => gen.stack = <<>> /\ gen.gpc # "loop"
    /\ \A n \in 1..Len(gen.stack) :
          gen.stack[n].w # None =>
              /\ gen.hrules[gen.stack[n].k].kind = "FORule"
              /\ gen.hrules[gen.stack[n].k].complexity <= gen.rule.max_rule_complexity

\* as many applications are in effect as a rule of rule_depth 2 allows
C23_Witness == gen.rule.rule_depth = 2 /\ InEffect = 2

\* C30: every call of _find_contradiction_optimized, at every depth, whether it
\* returns a trace or None, leaves the grid as it was on entry: each
\* hypothetical application is undone before the next conclusion or witness is
\* taken and before the call returns
C30_SearchRestoresGrid ==
    /\ [][ /\ Len(gen'.stack) < Len(gen.stack) /\ gen'.gpc = "ret" =>
                gen'.on_working /\ gen'.working = Top(gen).entry
           /\ gen.gpc = "call" /\ gen'.gpc = "ret" => gen'.working = gen.working ]_vars
    /\ [](gen.gpc = "loop" =>
             /\ gen.working = Top(gen).entry
             /\ \A n \in 1..Len(gen.stack) : gen.stack[n].pending = (n < Len(gen.stack)))
    /\ [](gen.gpc = "ret" /\ gen.stack = <<>> =>
             gen.working = Hypothesis(gen.original, gen.hyp[1], gen.hyp[2]))

\* the outermost call returned a trace that an application inside an
\* application led to; both have been undone
C30_Witness ==
    /\ gen.gpc = "ret" /\ gen.stack = <<>> /\ gen.ret # None
    /\ Len(gen.ret[1]) >= 3
    /\ gen.working = Hypothesis(gen.original, gen.hyp[1], gen.hyp[2])

=============================================================================
